---- MODULE Spec2Model ----
(***************************************************************************)
(* A model of the German text-level analyzer (src/app.py): the tiered      *)
(* vocabulary index (load_word_lists / get_word_level), the level ordering *)
(* (is_above_level), the token classifier (analyze_text), the leveled-text *)
(* renderer (create_leveled_text) and the word-list builder with its       *)
(* translation service (create_word_lists / TranslationService).           *)
(*                                                                         *)
(* Python strings are TLA+ strings; str.lower() and str.strip() are        *)
(* computed by tables over the finite set of words the model uses.         *)
(* Python dicts that are iterated (insertion order matters) are sequences  *)
(* of [key, value] entries; dicts that are only looked up are functions.   *)
(***************************************************************************)
EXTENDS Naturals, Integers, Sequences, FiniteSets, TLC

VARIABLES
    pc,            \* position of the run: which operation has completed
    sources,       \* the five vocabulary files, by level (input of load_word_lists)
    word_levels,   \* GermanLanguageAnalyzer.word_levels: lemma -> level
    stopwords,     \* GermanLanguageAnalyzer.stopwords
    core_words,    \* GermanLanguageAnalyzer.core_words
    call,          \* arguments of the operation that ran last
    ret,           \* what that operation returned
    doc,           \* the spaCy Doc (sequence of tagged tokens) of the input text
    target,        \* the target level selected for the run
    analysis,      \* the dict returned by analyze_text
    service        \* the TranslationService the calls are made on

vars == <<pc, sources, word_levels, stopwords, core_words, call, ret, doc,
          target, analysis, service>>

-----------------------------------------------------------------------------
(* Python values *)

\* Python's None.
None == "<None>"

\* Truthiness of an Optional[str]: None and "" are falsy.
Truthy(x) == x # None /\ x # ""

\* str.lower() on the words of the model: every string that holds an upper-case
\* letter is listed with its lower-case form; any other string is unchanged.
LowerTable ==
    [s \in {"Haus", " Haus ", "Wetter", "Welt", "Das", "Hallo", "Berlin", "Will",
            "Sie", "Gut", "Außergewöhnlich", "-PRON-", "HAUS", "Bank",
            "Gelegenheit"} |->
       CASE s = "Haus" -> "haus"
         [] s = " Haus " -> " haus "
         [] s = "HAUS" -> "haus"
         [] s = "Wetter" -> "wetter"
         [] s = "Welt" -> "welt"
         [] s = "Das" -> "das"
         [] s = "Hallo" -> "hallo"
         [] s = "Berlin" -> "berlin"
         [] s = "Will" -> "will"
         [] s = "Sie" -> "sie"
         [] s = "Gut" -> "gut"
         [] s = "Außergewöhnlich" -> "außergewöhnlich"
         [] s = "-PRON-" -> "-pron-"
         [] s = "Bank" -> "bank"
         [] s = "Gelegenheit" -> "gelegenheit"]

Lower(s) == IF s \in DOMAIN LowerTable THEN LowerTable[s] ELSE s

\* str.strip() on the words of the model: every string with leading or trailing
\* white space is listed with its trimmed form; any other string is unchanged.
StripTable ==
    [s \in {" haus ", " Haus ", "wetter ", "  ", " "} |->
       CASE s = " haus " -> "haus"
         [] s = " Haus " -> "Haus"
         [] s = "wetter " -> "wetter"
         [] s = "  " -> ""
         [] s = " " -> ""]

Strip(s) == IF s \in DOMAIN StripTable THEN StripTable[s] ELSE s

-----------------------------------------------------------------------------
(* load_word_lists: the vocabulary index *)

\* levels (app.py:68) and the keys of file_mapping in insertion order (app.py:69-75).
levels == <<"A1", "A2", "B1", "B2", "C1">>

\* The column names tried, in this order, for the lemma column (app.py:88).
lemma_col_names == <<"Lemma", "lemma", "Word", "word", "German", "german">>

\* A cell of a DataFrame column: a string, NaN (an empty or NA field) or a number.
StrCell(s) == [kind |-> "str", val |-> s]
NaNCell == [kind |-> "nan", val |-> ""]
NumCell == [kind |-> "num", val |-> ""]

\* A vocabulary file: readable or not (pd.read_csv raises), its columns in file
\* order, and the cells of each column.
Table(cols, data) == [readable |-> TRUE, columns |-> cols, data |-> data]
Unreadable == [readable |-> FALSE, columns |-> <<>>, data |-> <<>>]

OneColumn(name, cells) == Table(<<name>>, <<cells>>)

\* The files a vocabulary directory may hold.
SourcePool ==
    { OneColumn("Lemma", <<StrCell("Haus"), StrCell("gut")>>),
      OneColumn("word", <<StrCell(" haus "), StrCell("Wetter"), NumCell>>),
      OneColumn("lemma", <<NaNCell, StrCell("  "), StrCell("außergewöhnlich"),
                           StrCell("Welt")>>),
      Table(<<"german", "Lemma">>,
            << <<StrCell("Haus")>>, <<StrCell("wetter "), StrCell("berlin")>> >>),
      OneColumn("Wort", <<StrCell("Welt")>>),
      Unreadable }

RECURSIVE FirstIn(_, _, _)
\* The first name of `names`, from position i on, that is a column of `cols`;
\* None when there is none (app.py:87-91).
FirstIn(names, cols, i) ==
    IF i > Len(names) THEN None
    ELSE IF \E k \in 1..Len(cols) : cols[k] = names[i] THEN names[i]
    ELSE FirstIn(names, cols, i + 1)

LemmaCol(src) == FirstIn(lemma_col_names, src.columns, 1)

\* df[lemma_col]: the cells of the chosen column.
Column(src, name) ==
    src.data[CHOOSE k \in 1..Len(src.columns) : src.columns[k] = name]

\* An empty dict.
EmptyDict == [k \in {} |-> None]

\* The insertion of one cell under `level` (app.py:100-104).
InsertLemmaOverwrite(wl, cell, level) ==
    IF cell.kind = "str"
    THEN LET lemma_lower == Strip(Lower(cell.val))
         IN IF lemma_lower # ""
            THEN [k \in (DOMAIN wl) \cup {lemma_lower} |->
                     IF k = lemma_lower THEN level ELSE wl[k]]
            ELSE wl
    ELSE wl

InsertLemma(wl, cell, level) ==
    IF cell.kind = "str"
    THEN LET lemma_lower == Strip(Lower(cell.val))
         IN IF lemma_lower # "" /\ lemma_lower \notin DOMAIN wl
            THEN [k \in (DOMAIN wl) \cup {lemma_lower} |->
                     IF k = lemma_lower THEN level ELSE wl[k]]
            ELSE wl
    ELSE wl

RECURSIVE InsertColumn(_, _, _, _)
\* The loop over the cells of the lemma column (app.py:99-104).
InsertColumn(wl, cells, i, level) ==
    IF i > Len(cells) THEN wl
    ELSE InsertColumn(InsertLemma(wl, cells[i], level), cells, i + 1, level)

\* One iteration of the loop over file_mapping (app.py:78-111): an unreadable
\* file raises into the except clause, a file with no lemma column is skipped.
LoadLevel(wl, src, level) ==
    IF ~src.readable THEN wl
    ELSE IF ~Truthy(LemmaCol(src)) THEN wl
    ELSE InsertColumn(wl, Column(src, LemmaCol(src)), 1, level)

\* The loop over file_mapping with the try around the whole loop: the first
\* file that cannot be read, or has no lemma column, ends the load.
RECURSIVE LoadFromAbortOnError(_, _, _)
LoadFromAbortOnError(wl, srcs, i) ==
    IF i > Len(levels) THEN wl
    ELSE IF ~srcs[levels[i]].readable \/ ~Truthy(LemmaCol(srcs[levels[i]])) THEN wl
    ELSE LoadFromAbortOnError(LoadLevel(wl, srcs[levels[i]], levels[i]), srcs, i + 1)

RECURSIVE LoadFrom(_, _, _)
\* The loop over file_mapping (app.py:78).
LoadFrom(wl, srcs, i) ==
    IF i > Len(levels) THEN wl
    ELSE LoadFrom(LoadLevel(wl, srcs[levels[i]], levels[i]), srcs, i + 1)

\* load_word_lists on an analyzer whose word_levels is wl.
LoadWordListsInto(wl, srcs) == LoadFrom(wl, srcs, 1)

\* get_word_level (app.py:142-145).
WordLevelIn(wl, lemma) ==
    LET lemma_lower == Lower(lemma)
    IN IF lemma_lower \in DOMAIN wl THEN wl[lemma_lower] ELSE None

GetWordLevel(lemma) == WordLevelIn(word_levels, lemma)

\* initialize_core_words (app.py:115-140), restricted to the words of the model.
CoreWords == {"der", "die", "das", "ein", "sie", "sein", "zwischen", "und", "nicht",
              "zwanzig"}

\* The five sources as a function of the level.
SourcesOf(a1, a2, b1, b2, c1) ==
    [l \in {"A1", "A2", "B1", "B2", "C1"} |->
        CASE l = "A1" -> a1 [] l = "A2" -> a2 [] l = "B1" -> b1
          [] l = "B2" -> b2 [] l = "C1" -> c1]

NoDoc == <<>>
NoCall == [fn |-> "none"]
NoAnalysis == [fn |-> "none"]
NoTranslationService == [fn |-> "none"]

-----------------------------------------------------------------------------
(* The vocabulary specification: any five files, loaded, then looked up. *)

\* The lemmas looked up.
LookupWords == {"haus", "Haus", "HAUS", "wetter", "welt", "gut", "berlin",
                "außergewöhnlich", " haus ", "hallo", ""}

VocabInit ==
    /\ pc = "constructed"
    /\ sources \in {SourcesOf(a1, a2, b1, b2, c1) :
                      a1 \in SourcePool, a2 \in SourcePool, b1 \in SourcePool,
                      b2 \in SourcePool, c1 \in SourcePool}
    /\ word_levels = EmptyDict
    /\ stopwords = {}
    /\ core_words = {}
    /\ call = NoCall
    /\ ret = None
    /\ doc = NoDoc
    /\ target = None
    /\ analysis = NoAnalysis
    /\ service = NoTranslationService

\* load_word_lists(vocab_dir) (app.py:66-113).
LoadWordLists ==
    /\ pc = "constructed"
    /\ word_levels' = LoadWordListsInto(word_levels, sources)
    /\ pc' = "loaded"
    /\ UNCHANGED <<service, sources, stopwords, core_words, call, ret, doc, target, analysis>>

\* get_word_level(lemma) on the loaded analyzer.
LookupWord ==
    /\ pc = "loaded"
    /\ \E w \in LookupWords :
          /\ call' = [fn |-> "get_word_level", lemma |-> w]
          /\ ret' = GetWordLevel(w)
    /\ pc' = "looked_up"
    /\ UNCHANGED <<service, sources, word_levels, stopwords, core_words, doc, target, analysis>>

VocabNext == LoadWordLists \/ LookupWord

SpecVocab == VocabInit /\ [][VocabNext]_vars


\* A file holds the lemma w: it is readable, has a lemma column, and a string
\* cell of that column is w once lower-cased and trimmed.
Contains(src, w) ==
    /\ src.readable
    /\ Truthy(LemmaCol(src))
    /\ w # ""
    /\ \E k \in 1..Len(Column(src, LemmaCol(src))) :
          LET cell == Column(src, LemmaCol(src))[k]
          IN cell.kind = "str" /\ Strip(Lower(cell.val)) = w

\* The level of the first file, in the order A1, A2, B1, B2, C1, that holds w.
FirstSourceTier(w) ==
    IF \E i \in 1..Len(levels) : Contains(sources[levels[i]], w)
    THEN levels[CHOOSE i \in 1..Len(levels) :
                   /\ Contains(sources[levels[i]], w)
                   /\ \A j \in 1..(i - 1) : ~Contains(sources[levels[j]], w)]
    ELSE None

\* The lower-case, trimmed lemmas of the model.
Lemmas == {"haus", "wetter", "welt", "gut", "berlin", "außergewöhnlich", "hallo"}

\* C1: after load_word_lists has ingested the five sources in the order A1, A2,
\* B1, B2, C1, get_word_level(w) is the level of the first source that holds w
\* (None when no source does): a later source never overwrites an entry.
C1_FirstTierWins ==
    pc \in {"loaded", "looked_up"} =>
        /\ \A w \in Lemmas : GetWordLevel(w) = FirstSourceTier(w)
        /\ pc = "looked_up" => ret = FirstSourceTier(Lower(call.lemma))

\* C1 witness: "haus" is in the A1 and in the B1 source, and the lookup of
\* "Haus" after the load returned A1.
C1_Witness ==
    /\ pc = "looked_up"
    /\ call.lemma = "Haus"
    /\ Contains(sources["A1"], "haus")
    /\ Contains(sources["B1"], "haus")
    /\ ret = "A1"

\* A file that can be read and has one of the lemma columns.
Usable(src) ==
    /\ src.readable
    /\ \E k \in 1..Len(src.columns), n \in 1..Len(lemma_col_names) :
          src.columns[k] = lemma_col_names[n]

RECURSIVE IngestUsable(_, _)
\* The vocabulary built from the usable files alone, in the order of the levels.
IngestUsable(wl, i) ==
    IF i > Len(levels) THEN wl
    ELSE IF Usable(sources[levels[i]])
    THEN IngestUsable(InsertColumn(wl, Column(sources[levels[i]],
                                              LemmaCol(sources[levels[i]])),
                                   1, levels[i]), i + 1)
    ELSE IngestUsable(wl, i + 1)

\* C24: a file that cannot be read or has no lemma column adds no word and
\* does not end the load: no entry of word_levels has the level of such a
\* file, and word_levels is what the usable files alone, in the same order,
\* give.
C24_BadSourceSkipped ==
    pc \in {"loaded", "looked_up"} =>
        /\ word_levels = IngestUsable(EmptyDict, 1)
        /\ \A l \in DOMAIN sources : ~Usable(sources[l]) =>
              \A w \in DOMAIN word_levels : word_levels[w] # l

\* C24 witness: the A1 file cannot be read, the A2 file has no lemma column,
\* and "haus" was loaded from the B1 file.
C24_Witness ==
    /\ pc = "loaded"
    /\ ~sources["A1"].readable
    /\ sources["A2"].readable /\ ~Usable(sources["A2"])
    /\ Contains(sources["B1"], "haus")
    /\ GetWordLevel("haus") = "B1"

-----------------------------------------------------------------------------
(* is_above_level: the level ordering *)

\* level_order (app.py:149).
level_order ==
    [l \in {"A1", "A2", "B1", "B2", "C1"} |->
        CASE l = "A1" -> 1 [] l = "A2" -> 2 [] l = "B1" -> 3
          [] l = "B2" -> 4 [] l = "C1" -> 5]

IsAboveLevelOrEqual(word_level, target_level) ==
    IF word_level \notin DOMAIN level_order \/ target_level \notin DOMAIN level_order
    THEN FALSE
    ELSE level_order[word_level] >= level_order[target_level]

\* is_above_level with a label that is no level counted as the top level.
IsAboveLevelForeignOnTop(word_level, target_level) ==
    IF word_level \notin DOMAIN level_order THEN TRUE
    ELSE IF target_level \notin DOMAIN level_order THEN FALSE
    ELSE level_order[word_level] > level_order[target_level]

\* is_above_level that holds for the level next above the target only.
IsAboveLevelNextOnly(word_level, target_level) ==
    IF word_level \notin DOMAIN level_order \/ target_level \notin DOMAIN level_order
    THEN FALSE
    ELSE level_order[word_level] = level_order[target_level] + 1

\* is_above_level (app.py:147-154).
IsAboveLevel(word_level, target_level) ==
    IF word_level \notin DOMAIN level_order \/ target_level \notin DOMAIN level_order
    THEN FALSE
    ELSE level_order[word_level] > level_order[target_level]

\* The labels is_above_level is called with: the five levels and labels that
\* are none of them.
Labels == {"A1", "A2", "B1", "B2", "C1", "C2", "a1", "b2", "", "Unknown"}

LevelsInit ==
    /\ pc = "compare"
    /\ call \in {[fn |-> "is_above_level", word_level |-> w, target_level |-> t] :
                    w \in Labels, t \in Labels}
    /\ ret = None
    /\ sources = SourcesOf(Unreadable, Unreadable, Unreadable, Unreadable, Unreadable)
    /\ word_levels = EmptyDict
    /\ stopwords = {}
    /\ core_words = {}
    /\ doc = NoDoc
    /\ target = None
    /\ analysis = NoAnalysis
    /\ service = NoTranslationService

CompareLevels ==
    /\ pc = "compare"
    /\ ret' = IsAboveLevel(call.word_level, call.target_level)
    /\ pc' = "compared"
    /\ UNCHANGED <<service, sources, word_levels, stopwords, core_words, call, doc, target,
                   analysis>>

LevelsNext == CompareLevels

SpecLevels == LevelsInit /\ [][LevelsNext]_vars

\* The five levels and the rank of each: its position in A1, A2, B1, B2, C1.
Tiers == {levels[i] : i \in 1..Len(levels)}
Rank(l) == CHOOSE i \in 1..Len(levels) : levels[i] = l

\* C2: is_above_level(word_level, target_level) is true iff both labels are
\* levels and rank(word_level) > rank(target_level); with a label that is no
\* level it returns false.
C2_IsAboveTotal ==
    pc = "compared" =>
        /\ ret \in BOOLEAN
        /\ ret = ( /\ call.word_level \in Tiers
                   /\ call.target_level \in Tiers
                   /\ Rank(call.word_level) > Rank(call.target_level) )

\* C2 witness: the comparison of an unrecognized label with a level returned
\* false.
C2_Witness ==
    /\ pc = "compared"
    /\ call.word_level = "C2"
    /\ call.target_level = "A1"
    /\ ret = FALSE

-----------------------------------------------------------------------------
(* analyze_text: the token classifier *)

\* A spaCy token: text, lemma_, pos_, ent_type_ ("" when the token is no named
\* entity), is_punct and is_space. Its index token.i is its position in the
\* Doc, counted from 0.
Token(text, lemma, pos, ent, punct, space) ==
    [text |-> text, lemma_ |-> lemma, pos_ |-> pos, ent_type_ |-> ent,
     is_punct |-> punct, is_space |-> space]

Word(text, lemma, pos) == Token(text, lemma, pos, "", FALSE, FALSE)
Entity(text, lemma, pos, ent) == Token(text, lemma, pos, ent, FALSE, FALSE)
Punct(text) == Token(text, text, "PUNCT", "", TRUE, FALSE)

tDas == Word("Das", "der", "DET")
tHaus == Word("Haus", "Haus", "NOUN")
tIst == Word("ist", "sein", "AUX")
tAusser == Word("außergewöhnlich", "außergewöhnlich", "ADV")
tAusserE == Word("außergewöhnliche", "außergewöhnlich", "ADJ")
tWetter == Word("Wetter", "Wetter", "NOUN")
tWelt == Word("Welt", "Welt", "NOUN")
tGelegenheit == Word("Gelegenheit", "Gelegenheit", "NOUN")
tHallo == Word("Hallo", "Hallo", "INTJ")
tTrotzdem == Word("trotzdem", "trotzdem", "ADV")
tZwischen == Word("zwischen", "zwischen", "ADP")
tWillVerb == Word("Will", "wollen", "AUX")
tWillName == Entity("Will", "Will", "PROPN", "PER")
tBank == Entity("Bank", "Bank", "NOUN", "ORG")
tSie == Word("Sie", "-PRON-", "PRON")
tDot == Punct(".")
tComma == Punct(",")
tEllipsis == Punct("...")
tNewline == Token("\n", "\n", "SPACE", "", FALSE, TRUE)

\* The tokens of which every short text is made.
TokenPool == {tHaus, tWetter, tWelt, tAusser, tTrotzdem, tZwischen, tWillVerb,
              tWillName, tBank, tDot}

\* Longest text made freely of the tokens of TokenPool.
MaxDocLen == 2

\* Longer texts: "Hallo, Welt.", "Das außergewöhnliche Wetter.", "Das Haus ist
\* außergewöhnlich.", a text with six occurrences above A1, and texts with a
\* pronoun, an ellipsis and a line break.
DocHalloWelt == <<tHallo, tComma, tWelt, tDot>>
DocWetter == <<tDas, tAusserE, tWetter, tDot>>
DocHaus == <<tDas, tHaus, tIst, tAusser, tDot>>
DocLong == <<tWelt, tWetter, tAusserE, tBank, tAusser, tAusser, tGelegenheit, tDot>>
DocSie == <<tSie, tIst, tTrotzdem, tAusser, tEllipsis>>
DocLines == <<tHaus, tEllipsis, tNewline, tWetter, tDot>>

\* "Das außergewöhnlich." as the basic tokenizer German() gives it when the
\* full model is not installed (app.py:45-51): no lemma, no part of speech and
\* no entity type.
DocBasicTokenizer ==
    <<Token("Das", "", "", "", FALSE, FALSE),
      Token("außergewöhnlich", "", "", "", FALSE, FALSE),
      Token(".", "", "", "", TRUE, FALSE)>>

ExampleDocs == {DocHalloWelt, DocWetter, DocHaus, DocLong, DocSie, DocLines,
                DocBasicTokenizer}

Docs == (UNION {[1..n -> TokenPool] : n \in 0..MaxDocLen}) \cup ExampleDocs

\* The target levels analyze_text is called with: the five levels of the
\* selectbox (app.py:682-684) and a label that is none of them.
TargetLevels == {"A1", "A2", "B1", "B2", "C1", "C2"}

\* The vocabulary files of the analyzer the texts are analyzed with.
AnalyzerSources ==
    SourcesOf(OneColumn("Lemma", <<StrCell("Haus")>>),
              OneColumn("Lemma", <<StrCell("Wetter"), StrCell("zwischen")>>),
              OneColumn("lemma", <<StrCell("Welt"), StrCell("Bank"), StrCell("haus"),
                                   StrCell("trotzdem")>>),
              OneColumn("German", <<StrCell("Gelegenheit"), StrCell("Welt")>>),
              OneColumn("Word", <<StrCell("außergewöhnlich"), StrCell("Wetter")>>))

\* The stopwords file of the analyzer, as load_stopwords leaves it (app.py:53-64).
AnalyzerStopwords == {"trotzdem", "will", "wollen", "aber"}

\* The effective lemma (app.py:175, app.py:487).
EffectiveLemma(token) ==
    IF token.lemma_ # "-PRON-" THEN token.lemma_ ELSE token.text

\* A defaultdict(list) as the sequence of its [key, value] entries, in the order
\* the keys were inserted.
HasKey(d, k) == \E i \in 1..Len(d) : d[i].key = k

\* d[k].append(v)
DictAppend(d, k, v) ==
    IF HasKey(d, k)
    THEN [i \in 1..Len(d) |->
             IF d[i].key = k THEN [key |-> k, value |-> Append(d[i].value, v)]
             ELSE d[i]]
    ELSE Append(d, [key |-> k, value |-> <<v>>])

\* Why a token that is neither punctuation nor space is skipped, None when it
\* is not (app.py:186-198): the entity check comes first.
SkipReasonStopwordFirst(token, lemma_lower) ==
    IF lemma_lower \in stopwords THEN "stopword"
    ELSE IF token.ent_type_ # "" THEN "entity"
    ELSE IF lemma_lower \in core_words THEN "core word"
    ELSE None

SkipReasonNoExclusion(token, lemma_lower) ==
    IF token.ent_type_ # "" THEN "entity" ELSE None

\* The skip test without the core words.
SkipReasonNoCoreWords(token, lemma_lower) ==
    IF token.ent_type_ # "" THEN "entity"
    ELSE IF lemma_lower \in stopwords THEN "stopword"
    ELSE None

SkipReason(token, lemma_lower) ==
    IF token.ent_type_ # "" THEN "entity"
    ELSE IF lemma_lower \in stopwords THEN "stopword"
    ELSE IF lemma_lower \in core_words THEN "core word"
    ELSE None

\* The lists of analyze_text kept from one run to the next.
AnalysisStartCarriedOver ==
    IF pc = "classified"
    THEN [words_above_level |-> analysis.words_above_level,
          all_words |-> analysis.all_words,
          skipped_entities |-> analysis.skipped_entities,
          skipped_words |-> analysis.skipped_words]
    ELSE [words_above_level |-> <<>>, all_words |-> <<>>, skipped_entities |-> {},
          skipped_words |-> <<>>]

\* The state of the loop of analyze_text before its first token (app.py:160-167).
AnalysisStart ==
    [words_above_level |-> <<>>, all_words |-> <<>>, skipped_entities |-> {},
     skipped_words |-> <<>>]

\* The test that puts a considered word in a bucket (app.py:207).
IsAboveTargetAlways(word_level, t) == Truthy(word_level)

IsAboveTarget(word_level, t) == Truthy(word_level) /\ IsAboveLevel(word_level, t)

\* The body of the loop for the token at position i (app.py:169-213).
AnalyzeToken(st, token, i, t) ==
    IF token.is_punct \/ token.is_space THEN st
    ELSE LET lemma == EffectiveLemma(token)
             lemma_lower == Lower(lemma)
             reason == SkipReason(token, lemma_lower)
         IN IF reason = "entity"
            THEN [st EXCEPT !.skipped_entities = @ \cup {token.text},
                            !.skipped_words = Append(@, token.text \o " (entity)")]
            ELSE IF reason = "stopword"
            THEN [st EXCEPT !.skipped_words = Append(@, token.text \o " (stopword)")]
            ELSE IF reason = "core word"
            THEN [st EXCEPT !.skipped_words = Append(@, token.text \o " (core word)")]
            ELSE LET word_level == GetWordLevel(lemma)
                     considered == [st EXCEPT !.all_words = Append(@, <<token.text, lemma>>)]
                 IN IF IsAboveTarget(word_level, t)
                    THEN [considered EXCEPT !.words_above_level =
                            DictAppend(@, word_level,
                                       [original |-> token.text, lemma |-> lemma,
                                        pos |-> token.pos_, index |-> i - 1])]
                    ELSE considered

RECURSIVE AnalyzeLoop(_, _, _, _)
AnalyzeLoop(st, d, i, t) ==
    IF i > Len(d) THEN st
    ELSE AnalyzeLoop(AnalyzeToken(st, d[i], i, t), d, i + 1, t)

\* The dict analyze_text returns (app.py:215-222); of debug_info, the list
\* skipped_words.
AnalyzeTextResult(d, t) ==
    LET st == AnalyzeLoop(AnalysisStart, d, 1, t)
    IN [words_above_level |-> st.words_above_level,
        all_words |-> st.all_words,
        skipped_entities |-> st.skipped_entities,
        total_words |-> Len(st.all_words),
        doc |-> d,
        skipped_words |-> st.skipped_words]

-----------------------------------------------------------------------------
(* create_leveled_text: the leveled-text renderer *)

\* The text the Doc d was made of: the words separated by one space, the
\* punctuation and the line breaks set against the word before them.
RECURSIVE TextFrom(_, _)
TextFrom(d, i) ==
    IF i > Len(d) THEN ""
    ELSE (IF i > 1 /\ ~d[i].is_punct /\ ~d[i].is_space /\ ~d[i - 1].is_space
          THEN " " ELSE "") \o d[i].text \o TextFrom(d, i + 1)

TextOf(d) == TextFrom(d, 1)

\* The AIService of a run (app.py:228-230, app.py:590): whether each client was
\* initialized; NoAIService is the argument None.
AIService(claude, gemini) ==
    [is_none |-> FALSE, claude_client |-> claude, gemini_client |-> gemini]
NoAIService == [is_none |-> TRUE, claude_client |-> FALSE, gemini_client |-> FALSE]

AIServices == {AIService(c, g) : c \in BOOLEAN, g \in BOOLEAN}

\* What a call of the external model does: it raises, or returns a text.
Raises == [called |-> TRUE, raises |-> TRUE, text |-> ""]
Returns(text) == [called |-> TRUE, raises |-> FALSE, text |-> text]
NotCalled == [called |-> FALSE, raises |-> FALSE, text |-> ""]

RewriteResponses == {Raises, Returns("Das Haus ist schön."), Returns("")}

\* simplify_text_claude (app.py:251-274).
SimplifyTextClaude(ai_service, text, response) ==
    IF ~ai_service.claude_client THEN text
    ELSE IF response.raises THEN text
    ELSE response.text

\* simplify_text_gemini (app.py:276-298).
SimplifyTextGemini(ai_service, text, response) ==
    IF ~ai_service.gemini_client THEN text
    ELSE IF response.raises THEN text
    ELSE response.text

\* The placeholder of a word above the target level (app.py:492).
Placeholder == "[...]"

\* The renderer that replaces no token.
LeveledTokenVerbatim(token, t) == token.text

\* The renderer that replaces the words of the level C1 only.
LeveledTokenTopLevelOnly(token, t) ==
    LET lemma == EffectiveLemma(token)
        word_level == GetWordLevel(lemma)
    IN IF word_level = "C1" /\ IsAboveLevel(word_level, t)
       THEN Placeholder
       ELSE token.text

\* What the renderer emits for one token (app.py:487-494).
LeveledToken(token, t) ==
    LET lemma == EffectiveLemma(token)
        word_level == GetWordLevel(lemma)
    IN IF Truthy(word_level) /\ IsAboveLevel(word_level, t)
       THEN Placeholder
       ELSE token.text

LeveledTokens(d, t) == [i \in 1..Len(d) |-> LeveledToken(d[i], t)]

\* The characters of the string ".,;:!?" (app.py:499).
punctuation == <<".", ",", ";", ":", "!", "?">>

RECURSIVE Slice(_, _)
\* The substring of ".,;:!?" from character i to character j.
Slice(i, j) == IF i > j THEN "" ELSE punctuation[i] \o Slice(i + 1, j)

\* token in ".,;:!?": the substring test of Python.
InPunctuation(token) ==
    \E i \in 1..(Len(punctuation) + 1), j \in 0..Len(punctuation) : token = Slice(i, j)

\* The test for the space before tokens[i] (app.py:499).
SpaceBeforeIgnoringPlaceholder(tokens, i) ==
    i > 1 /\ ~InPunctuation(tokens[i])

SpaceBefore(tokens, i) ==
    i > 1 /\ ~InPunctuation(tokens[i]) /\ tokens[i - 1] # Placeholder

RECURSIVE Reconstruct(_, _, _)
\* The loop that joins the tokens (app.py:497-501).
Reconstruct(tokens, i, result) ==
    IF i > Len(tokens) THEN result
    ELSE Reconstruct(tokens, i + 1,
                     result \o (IF SpaceBefore(tokens, i) THEN " " ELSE "") \o tokens[i])

\* words_to_replace (app.py:468-470): the lemmas of all buckets, bucket by bucket.
RECURSIVE LemmasOf(_, _)
LemmasOf(words, e) ==
    IF e > Len(words) THEN <<>>
    ELSE <<words[e].lemma>> \o LemmasOf(words, e + 1)

RECURSIVE WordsToReplace(_, _)
WordsToReplace(wal, b) ==
    IF b > Len(wal) THEN <<>>
    ELSE LemmasOf(wal[b].value, 1) \o WordsToReplace(wal, b + 1)

\* Whether create_leveled_text calls the external model (app.py:472-477).
UsesClaude(d, t, ai_service, ai_model) ==
    /\ ~ai_service.is_none
    /\ Truthy(ai_model)
    /\ WordsToReplace(AnalyzeTextResult(d, t).words_above_level, 1) # <<>>
    /\ ai_model = "Claude" /\ ai_service.claude_client

UsesGemini(d, t, ai_service, ai_model) ==
    /\ ~ai_service.is_none
    /\ Truthy(ai_model)
    /\ WordsToReplace(AnalyzeTextResult(d, t).words_above_level, 1) # <<>>
    /\ ~(ai_model = "Claude" /\ ai_service.claude_client)
    /\ ai_model = "Gemini" /\ ai_service.gemini_client

\* create_leveled_text (app.py:462-503): the text returned, the list `tokens`
\* when the fallback built it, and the branch taken.
CreateLeveledTextResult(d, t, ai_service, ai_model, response) ==
    IF UsesClaude(d, t, ai_service, ai_model)
    THEN [text |-> SimplifyTextClaude(ai_service, TextOf(d), response),
          tokens |-> <<>>, path |-> "claude"]
    ELSE IF UsesGemini(d, t, ai_service, ai_model)
    THEN [text |-> SimplifyTextGemini(ai_service, TextOf(d), response),
          tokens |-> <<>>, path |-> "gemini"]
    ELSE IF AnalyzeTextResult(d, t).doc = <<>>
    THEN [text |-> TextOf(d), tokens |-> <<>>, path |-> "no doc"]
    ELSE [text |-> Reconstruct(LeveledTokens(d, t), 1, ""),
          tokens |-> LeveledTokens(d, t), path |-> "placeholder"]

\* The entries of all buckets of words_above_level.
BucketEntries(wal) ==
    UNION { {wal[b].value[e] : e \in 1..Len(wal[b].value)} : b \in 1..Len(wal) }

-----------------------------------------------------------------------------
(* TranslationService and create_word_lists: the word-list builder *)

\* The languages of the selectbox (app.py:690-692) the model uses.
TargetLanguages == {"English", "Polish"}

\* target_lang[:2].upper() (app.py:318).
LangCode(target_lang) ==
    CASE target_lang = "English" -> "EN"
      [] target_lang = "French" -> "FR"
      [] target_lang = "Spanish" -> "SP"
      [] target_lang = "Italian" -> "IT"
      [] target_lang = "Polish" -> "PO"
      [] target_lang = "Russian" -> "RU"

\* The mock translation (app.py:318, app.py:326, app.py:353).
MockTranslation(word, target_lang) == word \o " (" \o LangCode(target_lang) \o ")"

\* The value a failed single translation yields (app.py:357, app.py:379).
ErrorTranslation(word) == word \o " (error)"

\* cache_key (app.py:312, app.py:388, app.py:451).
CacheKey(word, target_lang, ai_model) ==
    word \o "_" \o target_lang \o "_" \o ai_model

\* dict[k] = v
DictSet(f, k, v) == [x \in (DOMAIN f) \cup {k} |-> IF x = k THEN v ELSE f[x]]

\* What the external translator does when asked for one word: it raises,
\* returns white space only, or returns a translation.
SingleShapes == {"raises", "blank", "ok"}

SingleResponse(shape, word) ==
    CASE shape = "raises" -> Raises
      [] shape = "blank" -> Returns(" ")
      [] shape = "ok" -> Returns("en:" \o word)

\* What it does when asked for a list of words: it raises, or returns lines:
\* one per word, one per word with the number of the line in front, one line
\* too few, a blank line in second place, or nothing.
BatchShapes == {"raises", "complete", "numbered", "short", "blank line", "empty"}

LineNumber == <<"1", "2", "3", "4", "5", "6", "7", "8", "9">>

BatchLines(shape, words) ==
    CASE shape = "complete" -> [i \in 1..Len(words) |-> "en:" \o words[i]]
      [] shape = "numbered" ->
            [i \in 1..Len(words) |->
                (IF i <= Len(LineNumber) THEN LineNumber[i] ELSE "0")
                   \o ". en:" \o words[i]]
      [] shape = "short" -> [i \in 1..(Len(words) - 1) |-> "en:" \o words[i]]
      [] shape = "blank line" ->
            [i \in 1..Len(words) |-> IF i = 2 THEN " " ELSE "en:" \o words[i]]
      [] shape = "empty" -> <<"">>
      [] shape = "raises" -> <<>>

\* A TranslationService (app.py:304-307), with the list of the calls it made
\* to the external translator and the list of the assignments made to
\* translation_cache, in the order they were made.
NewTranslationService(ai_service, ai_model) ==
    [ai_service |-> ai_service, ai_model |-> ai_model, translation_cache |-> EmptyDict,
     calls |-> <<>>, writes |-> <<>>]

\* What the external translator sees of one request: its kind, its words, the
\* language, and which of the words had a cache entry when the request was made.
Request(ts, kind, words, target_lang) ==
    [kind |-> kind, words |-> words, target_lang |-> target_lang,
     known |-> {words[i] : i \in {j \in 1..Len(words) :
                   CacheKey(words[j], target_lang, ts.ai_model)
                       \in DOMAIN ts.translation_cache}}]

\* _translate_with_claude, _translate_with_gemini (app.py:336-379): the value
\* returned for the response of the external translator.
TranslateWithAIMockOnError(word, target_lang, response) ==
    IF response.raises THEN MockTranslation(word, target_lang)
    ELSE IF Strip(response.text) # "" THEN Strip(response.text)
    ELSE MockTranslation(word, target_lang)

TranslateWithAI(word, target_lang, response) ==
    IF response.raises THEN ErrorTranslation(word)
    ELSE IF Strip(response.text) # "" THEN Strip(response.text)
    ELSE MockTranslation(word, target_lang)

\* Whether the service has the client of its model (app.py:321-323, 406, 423).
HasClient(ts) ==
    \/ (ts.ai_model = "Claude" /\ ts.ai_service.claude_client)
    \/ (ts.ai_model = "Gemini" /\ ts.ai_service.gemini_client)

\* translate_word with a mock translation that is stored in the cache even when
\* there is no AI service or no model.
TranslateWordCachingMock(ts, word, target_lang, single) ==
    LET cache_key == CacheKey(word, target_lang, ts.ai_model)
    IN IF cache_key \in DOMAIN ts.translation_cache
       THEN [ts |-> ts, value |-> ts.translation_cache[cache_key]]
       ELSE LET asked == ~ts.ai_service.is_none /\ ts.ai_model # "None" /\ HasClient(ts)
                translation ==
                    IF asked
                    THEN TranslateWithAI(word, target_lang,
                                         SingleResponse(single[word], word))
                    ELSE MockTranslation(word, target_lang)
                called == IF asked
                          THEN Append(ts.calls, Request(ts, "single", <<word>>, target_lang))
                          ELSE ts.calls
            IN [ts |-> [ts EXCEPT !.translation_cache = DictSet(@, cache_key, translation),
                                  !.writes = Append(@, [key |-> cache_key,
                                                        value |-> translation]),
                                  !.calls = called],
                value |-> translation]

\* translate_word (app.py:309-334): the service afterwards and the value
\* returned. single[word] is what the external translator does for the word.
TranslateWord(ts, word, target_lang, single) ==
    LET cache_key == CacheKey(word, target_lang, ts.ai_model)
    IN IF cache_key \in DOMAIN ts.translation_cache
       THEN [ts |-> ts, value |-> ts.translation_cache[cache_key]]
       ELSE IF ts.ai_service.is_none \/ ts.ai_model = "None"
       THEN [ts |-> ts, value |-> MockTranslation(word, target_lang)]
       ELSE LET translation ==
                    IF HasClient(ts)
                    THEN TranslateWithAI(word, target_lang,
                                         SingleResponse(single[word], word))
                    ELSE MockTranslation(word, target_lang)
                called == IF HasClient(ts)
                          THEN Append(ts.calls, Request(ts, "single", <<word>>, target_lang))
                          ELSE ts.calls
            IN [ts |-> [ts EXCEPT !.translation_cache = DictSet(@, cache_key, translation),
                                  !.writes = Append(@, [key |-> cache_key,
                                                        value |-> translation]),
                                  !.calls = called],
                value |-> translation]

\* The loop over the words of a batch that returns the translations and
\* stores none of them.
RECURSIVE ParseBatchUncached(_, _, _, _, _, _)
ParseBatchUncached(ts, translations, words, lines, target_lang, i) ==
    IF i > Len(words) THEN [ts |-> ts, translations |-> translations]
    ELSE IF i <= Len(lines) /\ Strip(lines[i]) # ""
    THEN ParseBatchUncached(ts, DictSet(translations, words[i], Strip(lines[i])),
                            words, lines, target_lang, i + 1)
    ELSE ParseBatchUncached(ts, translations, words, lines, target_lang, i + 1)

RECURSIVE ParseBatch(_, _, _, _, _, _)
\* The loop over the words of a batch (app.py:445-452).
ParseBatch(ts, translations, words, lines, target_lang, i) ==
    IF i > Len(words) THEN [ts |-> ts, translations |-> translations]
    ELSE IF i <= Len(lines) /\ Strip(lines[i]) # ""
    THEN ParseBatch([ts EXCEPT !.translation_cache =
                         DictSet(@, CacheKey(words[i], target_lang, ts.ai_model),
                                 Strip(lines[i])),
                                !.writes =
                         Append(@, [key |-> CacheKey(words[i], target_lang, ts.ai_model),
                                    value |-> Strip(lines[i])])],
                    DictSet(translations, words[i], Strip(lines[i])),
                    words, lines, target_lang, i + 1)
    ELSE ParseBatch(ts, translations, words, lines, target_lang, i + 1)

\* _batch_translate_with_ai (app.py:401-458).
BatchTranslateWithAI(ts, words, target_lang, batch) ==
    IF ~HasClient(ts) THEN [ts |-> ts, translations |-> EmptyDict]
    ELSE LET called == [ts EXCEPT !.calls = Append(@, Request(ts, "batch", words, target_lang))]
         IN IF batch = "raises"
            THEN [ts |-> called, translations |-> EmptyDict]
            ELSE ParseBatch(called, EmptyDict, words, BatchLines(batch, words),
                            target_lang, 1)

\* The batch threshold (app.py:386).
BatchThreshold == 5

\* The filter of translate_batch without the cache test.
RECURSIVE UncachedAll(_, _, _, _)
UncachedAll(ts, words, target_lang, i) ==
    IF i > Len(words) THEN <<>>
    ELSE <<words[i]>> \o UncachedAll(ts, words, target_lang, i + 1)

RECURSIVE Uncached(_, _, _, _)
\* uncached_words (app.py:388).
Uncached(ts, words, target_lang, i) ==
    IF i > Len(words) THEN <<>>
    ELSE (IF CacheKey(words[i], target_lang, ts.ai_model) \notin DOMAIN ts.translation_cache
          THEN <<words[i]>> ELSE <<>>)
         \o Uncached(ts, words, target_lang, i + 1)

RECURSIVE TranslateRemaining(_, _, _, _, _, _)
\* The loop over the words not translated by the batch (app.py:395-397).
TranslateRemaining(ts, translations, words, target_lang, single, i) ==
    IF i > Len(words) THEN [ts |-> ts, translations |-> translations]
    ELSE IF words[i] \in DOMAIN translations
    THEN TranslateRemaining(ts, translations, words, target_lang, single, i + 1)
    ELSE LET r == TranslateWord(ts, words[i], target_lang, single)
         IN TranslateRemaining(r.ts, DictSet(translations, words[i], r.value),
                               words, target_lang, single, i + 1)

\* Whether translate_batch takes the batch path (app.py:386).
UsesBatch(ts, words) ==
    ~ts.ai_service.is_none /\ ts.ai_model # "None" /\ Len(words) > BatchThreshold

\* translate_batch (app.py:381-399).
TranslateBatch(ts, words, target_lang, single, batch) ==
    LET uncached_words == Uncached(ts, words, target_lang, 1)
        batched ==
            IF UsesBatch(ts, words) /\ uncached_words # <<>>
            THEN BatchTranslateWithAI(ts, uncached_words, target_lang, batch)
            ELSE [ts |-> ts, translations |-> EmptyDict]
    IN TranslateRemaining(batched.ts, batched.translations, words, target_lang,
                          single, 1)

\* The occurrences of all buckets with the level of their bucket, bucket by
\* bucket (the loops at app.py:516-517 and app.py:532-533).
RECURSIVE Leveled(_, _, _)
Leveled(words, level, e) ==
    IF e > Len(words) THEN <<>>
    ELSE <<[word_info |-> words[e], level |-> level]>> \o Leveled(words, level, e + 1)

\* The occurrences of all buckets, the last bucket first.
RECURSIVE OccurrencesLastFirst(_, _)
OccurrencesLastFirst(wal, b) ==
    IF b > Len(wal) THEN <<>>
    ELSE OccurrencesLastFirst(wal, b + 1) \o Leveled(wal[b].value, wal[b].key, 1)

RECURSIVE Occurrences(_, _)
Occurrences(wal, b) ==
    IF b > Len(wal) THEN <<>>
    ELSE Leveled(wal[b].value, wal[b].key, 1) \o Occurrences(wal, b + 1)

RECURSIVE BuildWordData(_, _, _, _, _, _)
\* The loop that builds word_data (app.py:531-543): translate_word is called
\* for every occurrence, its value used when the lemma is not in translations.
BuildWordData(ts, translations, occurrences, target_lang, single, i) ==
    IF i > Len(occurrences) THEN [ts |-> ts, word_data |-> <<>>]
    ELSE LET word_info == occurrences[i].word_info
             lemma == word_info.lemma
             default == TranslateWord(ts, lemma, target_lang, single)
             translation == IF lemma \in DOMAIN translations
                            THEN translations[lemma] ELSE default.value
             rest == BuildWordData(default.ts, translations, occurrences, target_lang,
                                   single, i + 1)
         IN [ts |-> rest.ts,
             word_data |-> <<[german_word |-> word_info.original,
                              lemma |-> lemma,
                              part_of_speech |-> word_info.pos,
                              level |-> occurrences[i].level,
                              translation |-> translation]>> \o rest.word_data]

\* create_word_lists (app.py:506-545): the rows of the DataFrame, and the
\* translation service of the call as the call leaves it.
CreateWordListsResult(analysis_results, target_language, ai_service, ai_model, single, batch) ==
    LET translation_service == NewTranslationService(ai_service, ai_model)
        wal == analysis_results.words_above_level
        all_words_to_translate == WordsToReplace(wal, 1)
        translated ==
            IF all_words_to_translate # <<>>
            THEN TranslateBatch(translation_service, all_words_to_translate,
                                target_language, single, batch)
            ELSE [ts |-> translation_service, translations |-> EmptyDict]
        built == BuildWordData(translated.ts, translated.translations,
                               Occurrences(wal, 1), target_language, single, 1)
    IN [word_data |-> built.word_data,
        translation_cache |-> built.ts.translation_cache,
        calls |-> built.ts.calls,
        writes |-> built.ts.writes]

\* The distinct lemmas of the occurrences above the target level.
LemmasToTranslate(analysis_results) ==
    {w.lemma : w \in BucketEntries(analysis_results.words_above_level)}

-----------------------------------------------------------------------------
(* The application: one analyzer, and runs that analyze a text, then render
   the leveled text or build the word list. *)

\* get_analyzer (app.py:549-578): core words, stopwords and vocabulary loaded.
Init ==
    /\ pc = "ready"
    /\ sources = AnalyzerSources
    /\ word_levels = LoadWordListsInto(EmptyDict, AnalyzerSources)
    /\ stopwords = AnalyzerStopwords
    /\ core_words = CoreWords
    /\ call = NoCall
    /\ ret = None
    /\ doc = NoDoc
    /\ target = None
    /\ analysis = NoAnalysis
    /\ service = NoTranslationService

\* analyzer.analyze_text(text_input, target_level) (app.py:723, app.py:156-222).
AnalyzeText ==
    /\ pc = "ready"
    /\ \E d \in Docs, t \in TargetLevels :
          /\ doc' = d
          /\ target' = t
          /\ analysis' = AnalyzeTextResult(d, t)
          /\ call' = [fn |-> "analyze_text"]
    /\ ret' = None
    /\ pc' = "analyzed"
    /\ UNCHANGED <<service, sources, word_levels, stopwords, core_words>>

\* The leveling of the analyzed text (app.py:787-791): with the AI service and
\* the selected model, or with neither when no model is selected.
CreateLeveledText ==
    /\ pc = "analyzed"
    /\ \E ai_service \in AIServices \cup {NoAIService}, response \in RewriteResponses :
        \E ai_model \in (IF ai_service.is_none THEN {None} ELSE {"Claude", "Gemini"}) :
          LET called == \/ UsesClaude(doc, target, ai_service, ai_model)
                        \/ UsesGemini(doc, target, ai_service, ai_model)
          IN /\ call' = [fn |-> "create_leveled_text", ai_service |-> ai_service,
                         ai_model |-> ai_model,
                         response |-> IF called THEN response ELSE NotCalled]
             /\ ret' = CreateLeveledTextResult(doc, target, ai_service, ai_model, response)
    /\ pc' = "leveled"
    /\ UNCHANGED <<service, sources, word_levels, stopwords, core_words, doc, target, analysis>>

\* The labeling of the analyzed text (app.py:811-812): with the AI service and
\* the selected model, or with no service when the model is "None". The
\* external translator answers each request in one of the modelled ways.
CreateWordLists ==
    /\ pc = "analyzed"
    /\ \E target_language \in TargetLanguages,
          ai_service \in AIServices \cup {NoAIService} :
        \E ai_model \in (IF ai_service.is_none THEN {"None"} ELSE {"Claude", "Gemini"}) :
          LET ts == NewTranslationService(ai_service, ai_model)
              lemmas == LemmasToTranslate(analysis)
              asked == HasClient(ts) /\ lemmas # {}
              batched == asked /\ UsesBatch(ts, WordsToReplace(analysis.words_above_level, 1))
          IN \E single \in [lemmas -> (IF asked THEN SingleShapes ELSE {"ok"})],
                batch \in (IF batched THEN BatchShapes ELSE {"complete"}) :
                /\ call' = [fn |-> "create_word_lists",
                            target_language |-> target_language,
                            ai_service |-> ai_service, ai_model |-> ai_model,
                            single |-> single, batch |-> batch]
                /\ ret' = CreateWordListsResult(analysis, target_language, ai_service,
                                                ai_model, single, batch)
    /\ pc' = "listed"
    /\ UNCHANGED <<service, sources, word_levels, stopwords, core_words, doc, target, analysis>>

\* The next run of the script: the results of the last one are gone.
Rerun ==
    /\ pc \in {"leveled", "listed"}
    /\ pc' = "ready"
    /\ call' = NoCall
    /\ ret' = None
    /\ doc' = NoDoc
    /\ target' = None
    /\ analysis' = NoAnalysis
    /\ UNCHANGED <<service, sources, word_levels, stopwords, core_words>>

Next == AnalyzeText \/ CreateLeveledText \/ CreateWordLists \/ Rerun

Spec == Init /\ [][Next]_vars

-----------------------------------------------------------------------------
(* Properties of the classifier *)

\* The positions at which analysis holds the result of analyze_text for doc
\* and target.
Analyzed == pc \in {"analyzed", "leveled", "listed"}

\* How often x occurs in the sequence s.
Count(s, x) == Cardinality({i \in 1..Len(s) : s[i] = x})

\* C3: every key of words_above_level is a level of rank strictly above the
\* target's, every entry of bucket T has get_word_level(lemma) = T, and no bucket
\* is empty; with target C1 or an unrecognized target there is no bucket.
C3_BucketsAboveTarget ==
    Analyzed =>
        LET wal == analysis.words_above_level
        IN /\ \A b \in 1..Len(wal) :
                 /\ wal[b].key \in Tiers
                 /\ target \in Tiers
                 /\ Rank(wal[b].key) > Rank(target)
                 /\ Len(wal[b].value) > 0
                 /\ \A e \in 1..Len(wal[b].value) :
                       GetWordLevel(wal[b].value[e].lemma) = wal[b].key
                 /\ \A c \in 1..Len(wal) : wal[c].key = wal[b].key => c = b
           /\ (target = "C1" \/ target \notin Tiers) => wal = <<>>

\* C3 witness: an analysis with target A2 that filled two buckets.
C3_Witness ==
    /\ pc = "analyzed"
    /\ target = "A2"
    /\ Len(analysis.words_above_level) = 2

\* A token that is neither punctuation nor space and whose lower-cased
\* effective lemma is a stopword or a core word.
IsFunctionWord(token) ==
    /\ ~token.is_punct
    /\ ~token.is_space
    /\ Lower(EffectiveLemma(token)) \in stopwords \cup core_words

\* The tokens of the doc that are neither punctuation, space, named entity nor
\* function word.
ConsideredPositions ==
    {i \in 1..Len(doc) : /\ ~doc[i].is_punct
                         /\ ~doc[i].is_space
                         /\ doc[i].ent_type_ = ""
                         /\ ~IsFunctionWord(doc[i])}

\* C4: a token whose lower-cased effective lemma is a stopword or a core word
\* is not in all_words, not counted in total_words and in no bucket of
\* words_above_level, whatever level the vocabulary gives its lemma.
C4_FunctionWordsExcluded ==
    Analyzed =>
        /\ \A i \in 1..Len(doc) :
              IsFunctionWord(doc[i]) =>
                 /\ Count(analysis.all_words,
                          <<doc[i].text, EffectiveLemma(doc[i])>>) = 0
                 /\ \A w \in BucketEntries(analysis.words_above_level) :
                       w.index # i - 1
        /\ analysis.total_words = Cardinality(ConsideredPositions)

\* C4 witness: "trotzdem" (a stopword the vocabulary puts at B1) was analyzed
\* next to a considered word with target A1.
C4_Witness ==
    /\ pc = "analyzed"
    /\ target = "A1"
    /\ doc = <<tTrotzdem, tWelt>>
    /\ analysis.total_words = 1

\* The positions of the tokens with the text x that are named entities, that
\* are no entities and have a stopword lemma, and that are no entities and have
\* a core-word lemma that is no stopword.
EntityPositions(x) ==
    {j \in 1..Len(doc) : /\ doc[j].text = x
                         /\ ~doc[j].is_punct /\ ~doc[j].is_space
                         /\ doc[j].ent_type_ # ""}

StopwordOnlyPositions(x) ==
    {j \in 1..Len(doc) : /\ doc[j].text = x
                         /\ ~doc[j].is_punct /\ ~doc[j].is_space
                         /\ doc[j].ent_type_ = ""
                         /\ Lower(EffectiveLemma(doc[j])) \in stopwords}

CoreWordOnlyPositions(x) ==
    {j \in 1..Len(doc) : /\ doc[j].text = x
                         /\ ~doc[j].is_punct /\ ~doc[j].is_space
                         /\ doc[j].ent_type_ = ""
                         /\ Lower(EffectiveLemma(doc[j])) \notin stopwords
                         /\ Lower(EffectiveLemma(doc[j])) \in core_words}

\* C5: a token with a named-entity tag whose lemma is a stopword or a core word
\* is recorded as a skipped entity only: its text is in skipped_entities, the
\* skip reasons recorded for its text are one "(entity)" per entity token and
\* one "(stopword)" or "(core word)" per token that is no entity, and it is
\* neither in all_words nor in words_above_level.
C5_EntityBeforeStopword ==
    Analyzed =>
        \A i \in 1..Len(doc) :
            (doc[i].ent_type_ # "" /\ IsFunctionWord(doc[i])) =>
               LET x == doc[i].text
               IN /\ x \in analysis.skipped_entities
                  /\ Count(analysis.skipped_words, x \o " (entity)")
                        = Cardinality(EntityPositions(x))
                  /\ Count(analysis.skipped_words, x \o " (stopword)")
                        = Cardinality(StopwordOnlyPositions(x))
                  /\ Count(analysis.skipped_words, x \o " (core word)")
                        = Cardinality(CoreWordOnlyPositions(x))
                  /\ Count(analysis.all_words, <<x, EffectiveLemma(doc[i])>>) = 0
                  /\ \A w \in BucketEntries(analysis.words_above_level) :
                        w.index # i - 1

\* C5 witness: the name "Will" (an entity whose lemma is a stopword) followed by
\* the verb "Will" (no entity, lemma a stopword) was analyzed.
C5_Witness ==
    /\ pc = "analyzed"
    /\ doc = <<tWillName, tWillVerb>>
    /\ analysis.skipped_words = <<"Will (entity)", "Will (stopword)">>
    /\ analysis.skipped_entities = {"Will"}

-----------------------------------------------------------------------------
(* Properties of the renderer *)

\* The six punctuation marks.
SixMarks == {".", ",", ";", ":", "!", "?"}

RECURSIVE JoinByRule(_, _)
\* The tokens from position i on, each preceded by one space iff it is not the
\* first token, is none of the six marks, and the token before it is not the
\* placeholder; nothing else is inserted.
JoinByRule(tokens, i) ==
    IF i > Len(tokens) THEN ""
    ELSE (IF i # 1 /\ tokens[i] \notin SixMarks /\ tokens[i - 1] # "[...]"
          THEN " " ELSE "")
         \o tokens[i] \o JoinByRule(tokens, i + 1)

\* C6: the deterministic rendering inserts exactly one space before emitted
\* token i iff i is not the first token, token i is none of . , ; : ! ? and
\* emitted token i-1 is not the placeholder, and inserts nothing else; the
\* tokens Hallo , Welt . with none above the level render as "Hallo, Welt.".
C6_SpacingRule ==
    (pc = "leveled" /\ ret.path = "placeholder") =>
        /\ ret.text = JoinByRule(ret.tokens, 1)
        /\ ret.tokens = <<"Hallo", ",", "Welt", ".">> => ret.text = "Hallo, Welt."

\* C6 witness: "Hallo, Welt." was rendered with none of its words above the
\* target level.
C6_Witness ==
    /\ pc = "leveled"
    /\ doc = DocHalloWelt
    /\ ret.path = "placeholder"
    /\ ret.tokens = <<"Hallo", ",", "Welt", ".">>
    /\ ret.text = "Hallo, Welt."

\* C7: the tokens Das außergewöhnliche Wetter . with only "außergewöhnliche"
\* above the target level render as "Das [...] Wetter.".
C7_PlaceholderExample ==
    ( /\ pc = "leveled"
      /\ ret.path = "placeholder"
      /\ doc = DocWetter
      /\ ret.tokens = <<"Das", "[...]", "Wetter", ".">> )
    => ret.text = "Das [...] Wetter."

\* A token the classifier excludes from leveling: a named entity, or a word
\* whose lemma is a stopword or a core word.
IsExcluded(token) ==
    /\ ~token.is_punct
    /\ ~token.is_space
    /\ (token.ent_type_ # "" \/ IsFunctionWord(token))

\* C8: the deterministic rendering emits every token the classifier excludes
\* with its text unchanged, never as the placeholder.
C8_ExcludedKeptVerbatim ==
    (pc = "leveled" /\ ret.path = "placeholder") =>
        \A i \in 1..Len(doc) : IsExcluded(doc[i]) => ret.tokens[i] = doc[i].text

\* The selected model of the call is unavailable (its client is missing) or
\* its call raised.
RewriteUnavailableOrFailed ==
    /\ call.ai_model \in {"Claude", "Gemini"}
    /\ \/ (call.ai_model = "Claude" /\ ~call.ai_service.claude_client)
       \/ (call.ai_model = "Gemini" /\ ~call.ai_service.gemini_client)
       \/ (call.response.called /\ call.response.raises)

\* C9: when the selected rewrite model is unavailable or its call raises,
\* create_leveled_text returns the deterministic placeholder rendering of the
\* input.
C9_FallbackIsPlaceholderRendering ==
    (pc = "leveled" /\ RewriteUnavailableOrFailed) =>
        ret.text = Reconstruct(LeveledTokens(doc, target), 1, "")

-----------------------------------------------------------------------------
(* Properties of the word-list builder *)

\* No translator is configured for the call: no service, the model "None", or
\* no client for the selected model.
NoTranslator ==
    \/ call.ai_service.is_none
    \/ call.ai_model = "None"
    \/ ~HasClient([ai_service |-> call.ai_service, ai_model |-> call.ai_model])

\* The external translator was asked for the single word w.
AskedSingle(w) ==
    \E k \in 1..Len(ret.calls) :
        ret.calls[k].kind = "single" /\ ret.calls[k].words = <<w>>

\* The external translator was asked for a batch.
AskedBatch == \E k \in 1..Len(ret.calls) : ret.calls[k].kind = "batch"

-----------------------------------------------------------------------------
(* One TranslationService and the calls made on it: translate_word and
   translate_batch in any order, the external translator answering each
   request in one of the modelled ways. *)

\* The services: the selected model with its client, the selected model
\* without its client, and no service.
ServiceConfigs ==
    { NewTranslationService(AIService(TRUE, TRUE), "Claude"),
      NewTranslationService(AIService(FALSE, TRUE), "Claude"),
      NewTranslationService(NoAIService, "None") }

\* The words translate_word is called with, and the lists translate_batch is
\* called with: two words, five words, and six words of which one is repeated.
ServiceWords == {"Welt", "Wetter"}

ShortList == <<"Welt", "Wetter">>
FiveWords == <<"Welt", "Wetter", "außergewöhnlich", "Gelegenheit", "Haus">>
SixWords == <<"Welt", "Wetter", "außergewöhnlich", "außergewöhnlich", "Gelegenheit", "Haus">>

WordLists == {ShortList, FiveWords, SixWords}

\* The number of calls made on one service.
MaxOps == 2

\* The elements of a list.
Range(s) == {s[i] : i \in 1..Len(s)}

\* The words of a list that have a cache entry in the service ts.
CachedWords(ts, words, target_lang) ==
    {w \in Range(words) :
        CacheKey(w, target_lang, ts.ai_model) \in DOMAIN ts.translation_cache}

ServiceInit ==
    /\ pc = "serving"
    /\ service \in ServiceConfigs
    /\ call = [fn |-> "TranslationService", ops |-> 0]
    /\ ret = None
    /\ sources = SourcesOf(Unreadable, Unreadable, Unreadable, Unreadable, Unreadable)
    /\ word_levels = EmptyDict
    /\ stopwords = {}
    /\ core_words = {}
    /\ doc = NoDoc
    /\ target = None
    /\ analysis = NoAnalysis

\* service.translate_word(word, target_lang). The call records
\* what the external translator did when it was asked, how many requests it
\* got, and which words had a cache entry before.
TranslateWordOp ==
    /\ pc = "serving"
    /\ call.ops < MaxOps
    /\ \E word \in ServiceWords, target_lang \in TargetLanguages, shape \in SingleShapes :
          LET ts == service
              r == TranslateWord(ts, word, target_lang, [w \in {word} |-> shape])
              sent == Len(r.ts.calls) - Len(ts.calls)
          IN /\ sent = 0 => shape = "ok"
             /\ service' = r.ts
             /\ ret' = r.value
             /\ call' = [fn |-> "translate_word", words |-> <<word>>,
                         target_lang |-> target_lang, single |-> shape,
                         batch |-> "complete", sent |-> sent,
                         cached_before |-> CachedWords(ts, <<word>>, target_lang),
                         ops |-> call.ops + 1]
    /\ UNCHANGED <<pc, sources, word_levels, stopwords, core_words, doc, target, analysis>>

\* service.translate_batch(words, target_lang).
TranslateBatchOp ==
    /\ pc = "serving"
    /\ call.ops < MaxOps
    /\ \E words \in WordLists, target_lang \in TargetLanguages,
          shape \in SingleShapes, batch \in BatchShapes :
          LET ts == service
              r == TranslateBatch(ts, words, target_lang,
                                  [w \in Range(words) |-> shape], batch)
              sent == Len(r.ts.calls) - Len(ts.calls)
              new == {r.ts.calls[k].kind : k \in (Len(ts.calls) + 1)..Len(r.ts.calls)}
          IN /\ "single" \notin new => shape = "ok"
             /\ "batch" \notin new => batch = "complete"
             /\ service' = r.ts
             /\ ret' = r.translations
             /\ call' = [fn |-> "translate_batch", words |-> words,
                         target_lang |-> target_lang, single |-> shape,
                         batch |-> batch, sent |-> sent,
                         cached_before |-> CachedWords(ts, words, target_lang),
                         ops |-> call.ops + 1]
    /\ UNCHANGED <<pc, sources, word_levels, stopwords, core_words, doc, target, analysis>>

ServiceNext == TranslateWordOp \/ TranslateBatchOp

SpecService == ServiceInit /\ [][ServiceNext]_vars

-----------------------------------------------------------------------------
(* Properties of the translation service *)

\* A call has been made on the service.
Served == pc = "serving" /\ call.ops > 0

\* The requests the external translator got during the last call.
NewRequests ==
    {service.calls[k] : k \in (Len(service.calls) - call.sent + 1)..Len(service.calls)}

\* C11: on one TranslationService, after any sequence of translate_word and
\* translate_batch calls, the external translator was asked at most once for
\* a single word in a language, a translate_word call for a word with a cache
\* entry asked it nothing, and no request (for a batch or for a single word)
\* held a word that had a cache entry when the request was made.
C11_CachedWordNotSent ==
    Served =>
        LET calls == service.calls
        IN /\ \A k \in 1..Len(calls) : calls[k].known = {}
           /\ \A j \in 1..Len(calls), k \in 1..Len(calls) :
                 ( /\ j < k
                   /\ calls[j].kind = "single" /\ calls[k].kind = "single"
                   /\ calls[j].target_lang = calls[k].target_lang )
                 => calls[j].words # calls[k].words
           /\ (call.fn = "translate_word" /\ call.cached_before # {}) =>
                 /\ call.sent = 0
                 /\ ret = service.translation_cache[
                             CacheKey(call.words[1], call.target_lang, service.ai_model)]
           /\ \A r \in NewRequests : Range(r.words) \cap call.cached_before = {}

\* C11 witness: translate_word was called a second time for "Welt" in English;
\* the translator had been asked for it once, and was not asked again.
C11_Witness ==
    /\ Served
    /\ HasClient(service)
    /\ call.fn = "translate_word"
    /\ call.words = <<"Welt">>
    /\ call.target_lang = "English"
    /\ call.cached_before = {"Welt"}
    /\ call.sent = 0
    /\ Len(service.calls) = 1
    /\ service.calls[1].kind = "single"
    /\ service.calls[1].words = <<"Welt">>
    /\ service.calls[1].target_lang = "English"
    /\ ret = "en:Welt"

\* The words of the last call, with repetitions, that had no cache entry before
\* the call.
UncachedInput == {i \in 1..Len(call.words) : call.words[i] \notin call.cached_before}

\* C12: translate_batch sends a batch request only when more than five of its
\* input words have no cache entry; when at most five have none, it sends no
\* batch request and asks for each of them by a single-word request.
C12_BatchOnlyAboveThreshold ==
    (Served /\ call.fn = "translate_batch" /\ HasClient(service)) =>
        /\ (\E r \in NewRequests : r.kind = "batch") =>
              Cardinality(UncachedInput) > BatchThreshold
        /\ Cardinality(UncachedInput) <= BatchThreshold =>
              /\ \A r \in NewRequests : r.kind = "single"
              /\ \A i \in UncachedInput :
                    \E r \in NewRequests : r.words = <<call.words[i]>>

\* The words of the batch request r that the answer of the translator holds
\* a translation for: a line at the position of the word that is not blank.
ResolvedByBatch(r) ==
    LET lines == BatchLines(call.batch, r.words)
    IN {r.words[i] : i \in {j \in 1..Len(r.words) :
                               j <= Len(lines) /\ Strip(lines[j]) # ""}}

\* The words of the last call that a batch request of the call resolved.
Resolved ==
    UNION {ResolvedByBatch(r) : r \in {q \in NewRequests : q.kind = "batch"}}

\* C13: translate_batch returns a mapping that holds every input word. When a
\* translator is configured, every translation taken from the batch answer
\* was stored in the cache under the key of its word, the cache and the
\* mapping hold for a word the last translation the answer has for it,
\* and every word that had no cache entry and that the batch answer did not
\* resolve (fewer lines, a blank line, a failed batch call) was asked for by
\* one single-word request of translate_word, whose value is cached too.
C13_BatchMappingComplete ==
    (Served /\ call.fn = "translate_batch") =>
        /\ DOMAIN ret = Range(call.words)
        /\ \A w \in Range(call.words) : ret[w] # ""
        /\ \A r \in NewRequests : r.kind = "batch" =>
              \A i \in 1..Len(r.words) :
                 LET lines == BatchLines(call.batch, r.words)
                     key == CacheKey(r.words[i], call.target_lang, service.ai_model)
                     accepted == {j \in 1..Len(r.words) :
                                    /\ r.words[j] = r.words[i]
                                    /\ j <= Len(lines) /\ Strip(lines[j]) # ""}
                     last == CHOOSE j \in accepted : \A k \in accepted : k <= j
                 IN (i <= Len(lines) /\ Strip(lines[i]) # "") =>
                       /\ key \in DOMAIN service.translation_cache
                       /\ \E k \in 1..Len(service.writes) :
                             service.writes[k] = [key |-> key, value |-> Strip(lines[i])]
                       /\ service.translation_cache[key] = Strip(lines[last])
                       /\ ret[r.words[i]] = Strip(lines[last])
        /\ HasClient(service) =>
              \A w \in Range(call.words) :
                 LET key == CacheKey(w, call.target_lang, service.ai_model)
                     singles == {r \in NewRequests : r.kind = "single" /\ r.words = <<w>>}
                 IN /\ key \in DOMAIN service.translation_cache
                    /\ ret[w] = service.translation_cache[key]
                    /\ (w \notin call.cached_before /\ w \notin Resolved)
                          <=> singles # {}
                    /\ Cardinality({k \in 1..Len(service.calls) :
                                      /\ k > Len(service.calls) - call.sent
                                      /\ service.calls[k].kind = "single"
                                      /\ service.calls[k].words = <<w>>}) <= 1

\* C13 witness: translate_batch of six words, of which "Welt" had a cache
\* entry, got a batch answer one line short: three words came from the batch
\* answer and "Haus" from a single-word request, whose blank answer gave the
\* mock translation.
C13_Witness ==
    /\ Served
    /\ HasClient(service)
    /\ call.fn = "translate_batch"
    /\ call.words = SixWords
    /\ call.batch = "short"
    /\ call.single = "blank"
    /\ call.cached_before = {"Welt"}
    /\ call.sent = 2
    /\ Resolved = {"Wetter", "außergewöhnlich", "Gelegenheit"}
    /\ ret["Haus"] = "Haus (EN)"
    /\ ret["Wetter"] = "en:Wetter"

\* C14: a cache entry is created only by a successful translation: when the
\* external translator fails for a word, no entry is stored under the key of
\* the word, so no value of the form "<word> (error)" is in the cache.
C14_FailureNotCached ==
    Served =>
        /\ \A r \in NewRequests :
              (r.kind = "single" /\ call.single = "raises") =>
                 CacheKey(r.words[1], r.target_lang, service.ai_model)
                    \notin DOMAIN service.translation_cache
        /\ \A w \in Range(FiveWords), l \in TargetLanguages :
              LET key == CacheKey(w, l, service.ai_model)
              IN key \in DOMAIN service.translation_cache =>
                    service.translation_cache[key] # ErrorTranslation(w)

-----------------------------------------------------------------------------
(* The labeling runs of one process: each click on the button analyzes a text
   and builds its word list (app.py:716-812). `service` is the
   TranslationService that the last create_word_lists call constructed, as
   the call left it. *)

\* The vocabulary files with "haus" at A1 and "außergewöhnlich" at C1 only.
ScenarioSources ==
    SourcesOf(OneColumn("Lemma", <<StrCell("Haus")>>), Unreadable, Unreadable,
              Unreadable, OneColumn("Lemma", <<StrCell("außergewöhnlich")>>))

\* The texts and the target levels of the labeling runs.
LabelingDocs == {DocLong, DocWetter, DocHaus, <<tWelt, tWetter>>}
LabelingTargets == {"A1", "B1"}

\* The services create_word_lists is called with (app.py:811-812).
LabelingServices ==
    { [ai_service |-> AIService(TRUE, TRUE), ai_model |-> "Claude"],
      [ai_service |-> AIService(TRUE, TRUE), ai_model |-> "Gemini"],
      [ai_service |-> AIService(FALSE, TRUE), ai_model |-> "Claude"],
      [ai_service |-> NoAIService, ai_model |-> "None"],
      [ai_service |-> NoAIService, ai_model |-> "Claude"],
      [ai_service |-> AIService(TRUE, TRUE), ai_model |-> "None"] }

LabelingInit ==
    /\ pc = "ready"
    /\ sources \in {AnalyzerSources, ScenarioSources}
    /\ word_levels = LoadWordListsInto(EmptyDict, sources)
    /\ stopwords = AnalyzerStopwords
    /\ core_words = CoreWords
    /\ call = NoCall
    /\ ret = None
    /\ doc = NoDoc
    /\ target = None
    /\ analysis = NoAnalysis
    /\ service = NoTranslationService

\* One run in labeling mode: analyze_text, then create_word_lists on its
\* result. The external translator answers every single-word request of the
\* run in the same way.
LabelingRun ==
    /\ pc \in {"ready", "listed"}
    /\ \E d \in LabelingDocs, t \in LabelingTargets, target_language \in TargetLanguages,
          s \in LabelingServices :
          LET analysis_results == AnalyzeTextResult(d, t)
              lemmas == LemmasToTranslate(analysis_results)
              ts == NewTranslationService(s.ai_service, s.ai_model)
              asked == HasClient(ts) /\ lemmas # {}
              batched == asked /\ UsesBatch(ts, WordsToReplace(analysis_results.words_above_level, 1))
          IN \E batch \in (IF batched THEN BatchShapes ELSE {"complete"}) :
               \E shape \in (IF asked /\ (~batched \/ batch # "complete")
                            THEN SingleShapes ELSE {"ok"}) :
                  LET single == [w \in lemmas |-> shape]
                      r == CreateWordListsResult(analysis_results, target_language,
                                                 s.ai_service, s.ai_model, single, batch)
                  IN /\ doc' = d
                     /\ target' = t
                     /\ analysis' = analysis_results
                     /\ call' = [fn |-> "create_word_lists",
                                 target_language |-> target_language,
                                 ai_service |-> s.ai_service, ai_model |-> s.ai_model,
                                 single |-> single, batch |-> batch]
                     /\ ret' = r
                     /\ service' = [ts EXCEPT !.translation_cache = r.translation_cache,
                                              !.calls = r.calls,
                                              !.writes = r.writes]
    /\ pc' = "listed"
    /\ UNCHANGED <<sources, word_levels, stopwords, core_words>>

LabelingNext == LabelingRun

SpecLabeling == LabelingInit /\ [][LabelingNext]_vars

\* C15: a translation obtained during one create_word_lists call is still
\* cached in a later call of the same process: the later call, for the same
\* target language and model, sends the external translator no request that
\* holds a lemma the earlier call got a translation for.
C15_CacheOutlivesCall ==
    [][ ( /\ pc = "listed"
          /\ call'.target_language = call.target_language
          /\ call'.ai_model = call.ai_model
          /\ call'.ai_service = call.ai_service )
        => \A k \in 1..Len(ret'.calls) :
              \A w \in Range(ret'.calls[k].words) :
                 LET key == CacheKey(w, call.target_language, call.ai_model)
                 IN ~( /\ key \in DOMAIN service.translation_cache
                       /\ service.translation_cache[key] = "en:" \o w )
      ]_vars

\* create_word_lists was called with no AI service or with the model "None".
NoServiceOrNoModel ==
    /\ pc = "listed"
    /\ (call.ai_service.is_none \/ call.ai_model = "None")

\* C21: with no AI service or with the model "None", create_word_lists sends
\* the external translator nothing, leaves the translation cache empty, and
\* gives each record the translation "<lemma> (<first two letters of the target
\* language in capitals>)"; in the end-to-end scenario with the target language
\* English the word list is the single record of "außergewöhnlich" at C1 with
\* the translation "außergewöhnlich (EN)".
C21_NoTranslatorMockOnly ==
    NoServiceOrNoModel =>
        /\ ret.calls = <<>>
        /\ DOMAIN ret.translation_cache = {}
        /\ Len(ret.word_data)
              = Cardinality(BucketEntries(analysis.words_above_level))
        /\ \A k \in 1..Len(ret.word_data) :
              ret.word_data[k].translation
                 = ret.word_data[k].lemma
                      \o (IF call.target_language = "English" THEN " (EN)" ELSE " (PO)")
        /\ ( /\ word_levels = LoadWordListsInto(EmptyDict, ScenarioSources)
             /\ doc = DocHaus
             /\ target = "B1"
             /\ call.target_language = "English" )
           => /\ Len(ret.word_data) = 1
              /\ ret.word_data[1].german_word = "außergewöhnlich"
              /\ ret.word_data[1].lemma = "außergewöhnlich"
              /\ ret.word_data[1].level = "C1"
              /\ ret.word_data[1].translation = "außergewöhnlich (EN)"

\* C21 witness: the word list of the scenario was built for English with no
\* AI service, and holds one record.
C21_Witness ==
    /\ NoServiceOrNoModel
    /\ call.ai_service.is_none
    /\ word_levels = LoadWordListsInto(EmptyDict, ScenarioSources)
    /\ doc = DocHaus
    /\ target = "B1"
    /\ call.target_language = "English"
    /\ Len(ret.word_data) = 1
    /\ ret.word_data[1].translation = "außergewöhnlich (EN)"

-----------------------------------------------------------------------------
(* Properties of the word list *)

\* The level of the token at position i of the doc.
LevelAt(i) == GetWordLevel(EffectiveLemma(doc[i]))

\* The positions of the considered tokens whose level is above the target.
AbovePositions ==
    {i \in ConsideredPositions :
        /\ LevelAt(i) \in Tiers
        /\ target \in Tiers
        /\ Rank(LevelAt(i)) > Rank(target)}

RECURSIVE EntriesBefore(_, _)
\* The number of entries in the buckets before bucket b.
EntriesBefore(wal, b) ==
    IF b <= 1 THEN 0 ELSE Len(wal[b - 1].value) + EntriesBefore(wal, b - 1)

\* The bucket that holds entry k when the buckets are counted through one
\* after the other, in the order in which words_above_level holds them.
BucketOf(wal, k) ==
    CHOOSE b \in 1..Len(wal) :
        EntriesBefore(wal, b) < k /\ k <= EntriesBefore(wal, b) + Len(wal[b].value)

\* C16: create_word_lists emits exactly one record per occurrence above the
\* target level; the tiers follow each other in the order of the buckets of
\* words_above_level, which is the order of their first occurrence in the
\* text and not the order of their ranks; the records of one tier are in
\* token order (the token indexes of a bucket increase strictly); and the
\* Level of each record is the tier of its bucket.
C16_RecordPerOccurrenceInOrder ==
    pc = "listed" =>
        LET wal == analysis.words_above_level
        IN /\ Len(ret.word_data) = Cardinality(AbovePositions)
           /\ Len(ret.word_data) = EntriesBefore(wal, Len(wal) + 1)
           /\ \A k \in 1..Len(ret.word_data) :
                 LET b == BucketOf(wal, k)
                     entry == wal[b].value[k - EntriesBefore(wal, b)]
                     r == ret.word_data[k]
                 IN /\ r.german_word = entry.original
                    /\ r.lemma = entry.lemma
                    /\ r.part_of_speech = entry.pos
                    /\ r.level = wal[b].key
                    /\ entry.index + 1 \in AbovePositions
                    /\ r.german_word = doc[entry.index + 1].text
                    /\ r.level = LevelAt(entry.index + 1)
           /\ \A b \in 1..Len(wal) :
                 /\ \A e \in 1..(Len(wal[b].value) - 1) :
                       wal[b].value[e].index < wal[b].value[e + 1].index
                 /\ \A c \in 1..Len(wal) :
                       b < c => wal[b].value[1].index < wal[c].value[1].index

\* C16 witness: the word list of a text with six occurrences above A1, whose
\* tiers first occur in the order B1, A2, C1, B2.
C16_Witness ==
    /\ pc = "listed"
    /\ doc = DocLong
    /\ target = "A1"
    /\ [k \in 1..Len(ret.word_data) |-> ret.word_data[k].level]
          = <<"B1", "A2", "C1", "C1", "C1", "B2">>
    /\ [k \in 1..Len(ret.word_data) |-> ret.word_data[k].german_word]
          = <<"Welt", "Wetter", "außergewöhnliche", "außergewöhnlich",
              "außergewöhnlich", "Gelegenheit">>

-----------------------------------------------------------------------------
(* analyze_text as a function of its inputs: the token stream, the target
   level, and the word_levels, stopwords and core_words of the analyzer. *)

\* The word_levels an analyzer is run with: as loaded from the files, or with
\* entries whose level is none of the five (word_levels is a plain attribute
\* that load_word_lists fills but any caller may set).
WithForeignLevels(wl) == DictSet(DictSet(wl, "wetter", "C2"), "gelegenheit", "")

\* The target levels analyze_text is run with: the five levels and labels
\* that are none of them.
ClassifyTargets == TargetLevels \cup {"b1", ""}

ClassifyInit ==
    /\ pc = "loaded"
    /\ sources \in {ScenarioSources, AnalyzerSources}
    /\ word_levels \in {LoadWordListsInto(EmptyDict, sources),
                        WithForeignLevels(LoadWordListsInto(EmptyDict, sources))}
    /\ stopwords \in {AnalyzerStopwords, {}}
    /\ core_words = CoreWords
    /\ call = NoCall
    /\ ret = None
    /\ doc = NoDoc
    /\ target = None
    /\ analysis = NoAnalysis
    /\ service = NoTranslationService

\* analyzer.analyze_text(text, target_level) (app.py:156-222).
Classify ==
    /\ pc = "loaded"
    /\ \E d \in Docs, t \in ClassifyTargets :
          /\ doc' = d
          /\ target' = t
          /\ analysis' = AnalyzeTextResult(d, t)
    /\ call' = [fn |-> "analyze_text"]
    /\ pc' = "classified"
    /\ UNCHANGED <<ret, service, sources, word_levels, stopwords, core_words>>

\* A second analyzer.analyze_text call with the same text and target level.
ClassifyAgain ==
    /\ pc = "classified"
    /\ ret' = AnalyzeTextResult(doc, target)
    /\ call' = [fn |-> "analyze_text"]
    /\ pc' = "classified twice"
    /\ UNCHANGED <<doc, target, analysis, service, sources, word_levels, stopwords,
                   core_words>>

\* create_leveled_text(analyzer, text, target_level) with no AI service
\* (app.py:791, app.py:462-503).
LevelText ==
    /\ pc = "classified"
    /\ ret' = CreateLeveledTextResult(doc, target, NoAIService, None, NotCalled)
    /\ call' = [fn |-> "create_leveled_text", ai_service |-> NoAIService,
                ai_model |-> None, response |-> NotCalled]
    /\ pc' = "rendered"
    /\ UNCHANGED <<doc, target, analysis, service, sources, word_levels, stopwords,
                   core_words>>

ClassifyNext == Classify \/ ClassifyAgain \/ LevelText

SpecClassify == ClassifyInit /\ [][ClassifyNext]_vars

-----------------------------------------------------------------------------
(* Properties of analyze_text as a function *)

\* analysis holds the result of analyze_text for doc and target.
Classified == pc \in {"classified", "classified twice", "rendered"}

\* The tokens of the doc that are neither punctuation nor space.
WordPositions == {i \in 1..Len(doc) : ~doc[i].is_punct /\ ~doc[i].is_space}

\* C17: analyze_text returns a result for every token stream, every lemma and
\* every target label: each token that is neither punctuation nor space is
\* either skipped or considered, total_words counts the considered ones, and
\* every bucket is keyed by one of the five levels. With a target label that
\* is no level there is no bucket at all, and a considered word whose
\* vocabulary entry is no level is in all_words but in no bucket.
C17_ClassificationTotal ==
    Classified =>
        LET wal == analysis.words_above_level
        IN /\ DOMAIN analysis = {"words_above_level", "all_words", "skipped_entities",
                                 "total_words", "doc", "skipped_words"}
           /\ analysis.doc = doc
           /\ analysis.total_words = Len(analysis.all_words)
           /\ analysis.total_words = Cardinality(ConsideredPositions)
           /\ Len(analysis.all_words) + Len(analysis.skipped_words)
                 = Cardinality(WordPositions)
           /\ \A b \in 1..Len(wal) : wal[b].key \in Tiers /\ Len(wal[b].value) > 0
           /\ target \notin Tiers => wal = <<>>
           /\ \A i \in ConsideredPositions :
                 /\ Count(analysis.all_words, <<doc[i].text, EffectiveLemma(doc[i])>>) > 0
                 /\ LevelAt(i) \notin Tiers =>
                       \A w \in BucketEntries(wal) : w.index # i - 1

\* C17 witness: with a vocabulary that puts "wetter" at the unrecognized level
\* C2, the text "Welt Wetter" was analyzed with target A1: both words were
\* considered, "Welt" is in the bucket B1 and "Wetter" in none.
C17_Witness ==
    /\ pc = "classified"
    /\ doc = <<tWelt, tWetter>>
    /\ target = "A1"
    /\ GetWordLevel("Wetter") = "C2"
    /\ analysis.total_words = 2
    /\ Len(analysis.words_above_level) = 1
    /\ analysis.words_above_level[1].key = "B1"

StatedLemma(token) ==
    IF token.lemma_ \in {"-PRON-", ""} THEN token.text ELSE token.lemma_

\* C26: the classifier and the renderer use the surface text of a token whose
\* lemma is "-PRON-" or empty: a word that is no entity, whose surface text or
\* lemma, so resolved, is no stopword and no core word and has a level above
\* the target, is in the bucket of that level and is rendered as the
\* placeholder.
C26_SurfaceTextWhenNoLemma ==
    Classified =>
        \A i \in WordPositions :
            LET lemma == StatedLemma(doc[i])
                word_level == GetWordLevel(lemma)
            IN ( /\ doc[i].ent_type_ = ""
                 /\ Lower(lemma) \notin stopwords \cup core_words
                 /\ word_level \in Tiers
                 /\ target \in Tiers
                 /\ Rank(word_level) > Rank(target) )
               => /\ \E b \in 1..Len(analysis.words_above_level) :
                        /\ analysis.words_above_level[b].key = word_level
                        /\ \E e \in 1..Len(analysis.words_above_level[b].value) :
                              /\ analysis.words_above_level[b].value[e].index = i - 1
                              /\ analysis.words_above_level[b].value[e].lemma = lemma
                  /\ pc = "rendered" => ret.tokens[i] = "[...]"

\* The occurrence w is in the bucket `level` of words_above_level wal.
InBucket(wal, level, w) ==
    \E b \in 1..Len(wal) :
        /\ wal[b].key = level
        /\ \E e \in 1..Len(wal[b].value) : wal[b].value[e] = w

\* C29: with the same text and vocabulary, every occurrence that is above a
\* target level t2 is, in the same bucket, above every target level t1 of
\* rank at most that of t2; all_words, total_words and skipped_entities are
\* the same for every target level.
C29_MonotoneInTarget ==
    Classified =>
        /\ \A t2 \in ClassifyTargets :
              LET other == AnalyzeTextResult(doc, t2)
              IN /\ other.all_words = analysis.all_words
                 /\ other.total_words = analysis.total_words
                 /\ other.skipped_entities = analysis.skipped_entities
        /\ target \in Tiers =>
              \A t2 \in {t \in Tiers : Rank(target) <= Rank(t)} :
                 LET above == AnalyzeTextResult(doc, t2).words_above_level
                 IN \A b \in 1..Len(above) : \A e \in 1..Len(above[b].value) :
                       InBucket(analysis.words_above_level, above[b].key,
                                above[b].value[e])

\* C29 witness: the long text was analyzed with target A1 and has four
\* buckets; with target B1 it has the two buckets B2 and C1, each of them part
\* of the bucket of the same level for A1.
C29_Witness ==
    /\ pc = "classified"
    /\ doc = DocLong
    /\ target = "A1"
    /\ Len(analysis.words_above_level) = 4
    /\ LET above == AnalyzeTextResult(doc, "B1").words_above_level
       IN /\ Len(above) = 2
          /\ {above[b].key : b \in 1..Len(above)} = {"B2", "C1"}
          /\ \A b \in 1..Len(above) :
                InBucket(analysis.words_above_level, above[b].key, above[b].value[1])

\* The positions at which the rendering has the placeholder.
PlaceholderPositions == {i \in 1..Len(ret.tokens) : ret.tokens[i] = Placeholder}

\* C30: every occurrence that analyze_text records in words_above_level is
\* rendered by create_leveled_text without AI model as the placeholder "[...]"
\* and not as its text, so that the placeholders are at least as many as the
\* recorded occurrences.
C30_RecordedIsPlaceholder ==
    (pc = "rendered" /\ ret.path = "placeholder") =>
        /\ \A w \in BucketEntries(analysis.words_above_level) :
              /\ ret.tokens[w.index + 1] = "[...]"
              /\ ret.tokens[w.index + 1] # doc[w.index + 1].text
        /\ Cardinality(PlaceholderPositions)
              >= Cardinality(BucketEntries(analysis.words_above_level))

\* C30 witness: the long text was rendered for target A1: its six recorded
\* occurrences are placeholders, and so is the entity "Bank", which is in
\* the vocabulary at B1 but in no bucket.
C30_Witness ==
    /\ pc = "rendered"
    /\ doc = DocLong
    /\ target = "A1"
    /\ GetWordLevel("Bank") = "B1"
    /\ Cardinality(BucketEntries(analysis.words_above_level)) = 6
    /\ Cardinality(PlaceholderPositions) = 7

\* The end-to-end scenario: the vocabulary {haus: A1, außergewöhnlich: C1},
\* the target level B1 and the tokens of "Das Haus ist außergewöhnlich.".
Scenario ==
    /\ Classified
    /\ word_levels = LoadWordListsInto(EmptyDict, ScenarioSources)
    /\ target = "B1"
    /\ doc = DocHaus

\* C19: in the scenario, words_above_level holds exactly one bucket, C1, with
\* the single occurrence of the lemma "außergewöhnlich", and the deterministic
\* leveled text is "Das Haus ist [...].".
C19_ScenarioLeveledText ==
    Scenario =>
        /\ Len(analysis.words_above_level) = 1
        /\ analysis.words_above_level[1].key = "C1"
        /\ Len(analysis.words_above_level[1].value) = 1
        /\ analysis.words_above_level[1].value[1].lemma = "außergewöhnlich"
        /\ analysis.words_above_level[1].value[1].index = 3
        /\ pc = "rendered" =>
              /\ ret.path = "placeholder"
              /\ ret.text = "Das Haus ist [...]."

\* C19 witness: the scenario was analyzed and rendered without AI model.
C19_Witness ==
    /\ Scenario
    /\ pc = "rendered"
    /\ TextOf(doc) = "Das Haus ist außergewöhnlich."
    /\ ret.tokens = <<"Das", "Haus", "ist", "[...]", ".">>
    /\ ret.text = "Das Haus ist [...]."

\* C20 as stated: in the scenario, where "Das" and "ist" are excluded as core
\* words, total_words is 3.
C20_ScenarioCountThree ==
    Scenario => analysis.total_words = 3

\* C20 as amended: in the scenario "Das" (lemma "der") and "ist" (lemma
\* "sein") are skipped as core words, the considered words are "Haus" and
\* "außergewöhnlich", and total_words is 2.
C20_ScenarioCountTwo ==
    Scenario =>
        /\ analysis.total_words = 2
        /\ analysis.all_words = << <<"Haus", "Haus">>,
                                   <<"außergewöhnlich", "außergewöhnlich">> >>
        /\ analysis.skipped_words = <<"Das (core word)", "ist (core word)">>

\* C20 witness: the scenario was analyzed; two of its four words were skipped
\* and two counted.
C20_Witness ==
    /\ Scenario
    /\ pc = "classified"
    /\ Cardinality(WordPositions) = 4
    /\ Len(analysis.skipped_words) = 2
    /\ analysis.total_words = 2

-----------------------------------------------------------------------------
(* Concurrent translate_word calls on one TranslationService. The code takes
   no lock (app.py:309-334): a call is the test of the cache, the request to
   the external translator, and the write to the cache, and the steps of the
   callers interleave. `service` is the shared service; call.threads[t] is the
   position of caller t, the translation it holds and the value it returned. *)

Threads == {1, 2}

\* A caller that has not called yet.
IdleThread == [at |-> "idle", word |-> None, target_lang |-> None,
               translation |-> None, value |-> None]

ConcurrentInit ==
    /\ pc = "concurrent"
    /\ \E c \in ServiceConfigs :
          service = NewTranslationService(c.ai_service, c.ai_model)
    /\ call = [fn |-> "translate_word", threads |-> [t \in Threads |-> IdleThread]]
    /\ ret = None
    /\ sources = AnalyzerSources
    /\ word_levels = EmptyDict
    /\ stopwords = {}
    /\ core_words = CoreWords
    /\ doc = NoDoc
    /\ target = None
    /\ analysis = NoAnalysis

\* The cache key of the call of caller t (app.py:312).
ThreadKey(t) ==
    CacheKey(call.threads[t].word, call.threads[t].target_lang, service.ai_model)

\* Caller t enters translate_word(word, "English").
ThreadCall(t) ==
    /\ call.threads[t].at = "idle"
    /\ \E word \in ServiceWords :
          call' = [call EXCEPT !.threads[t] =
                      [IdleThread EXCEPT !.at = "check", !.word = word,
                                         !.target_lang = "English"]]
    /\ UNCHANGED <<pc, service, ret, sources, word_levels, stopwords, core_words,
                   doc, target, analysis>>

\* The test of the cache and of the service (app.py:313-318): a cached value
\* or the mock translation is returned, or the caller goes on to translate.
ThreadCheck(t) ==
    /\ call.threads[t].at = "check"
    /\ LET th == call.threads[t]
       IN call' = [call EXCEPT !.threads[t] =
                     IF ThreadKey(t) \in DOMAIN service.translation_cache
                     THEN [th EXCEPT !.at = "done",
                                     !.value = service.translation_cache[ThreadKey(t)]]
                     ELSE IF service.ai_service.is_none \/ service.ai_model = "None"
                     THEN [th EXCEPT !.at = "done",
                                     !.value = MockTranslation(th.word, th.target_lang)]
                     ELSE [th EXCEPT !.at = "translate"]]
    /\ UNCHANGED <<pc, service, ret, sources, word_levels, stopwords, core_words,
                   doc, target, analysis>>

\* The request to the external translator, or the mock translation when the
\* service has no client of its model (app.py:321-326).
ThreadTranslate(t) ==
    /\ call.threads[t].at = "translate"
    /\ \E shape \in (IF HasClient(service) THEN SingleShapes ELSE {"ok"}) :
          LET word == call.threads[t].word
              target_lang == call.threads[t].target_lang
              translation ==
                  IF HasClient(service)
                  THEN TranslateWithAI(word, target_lang, SingleResponse(shape, word))
                  ELSE MockTranslation(word, target_lang)
          IN /\ call' = [call EXCEPT !.threads[t] =
                            [@ EXCEPT !.at = "store", !.translation = translation]]
             /\ service' = [service EXCEPT !.calls =
                               IF HasClient(service)
                               THEN Append(@, Request(service, "single", <<word>>,
                                                      target_lang))
                               ELSE @]
    /\ UNCHANGED <<pc, ret, sources, word_levels, stopwords, core_words, doc, target,
                   analysis>>

\* The write to the cache and the return (app.py:328-329).
ThreadStore(t) ==
    /\ call.threads[t].at = "store"
    /\ service' = [service EXCEPT !.translation_cache =
                      DictSet(@, ThreadKey(t), call.threads[t].translation),
                                  !.writes =
                      Append(@, [key |-> ThreadKey(t),
                                 value |-> call.threads[t].translation])]
    /\ call' = [call EXCEPT !.threads[t] =
                  [@ EXCEPT !.at = "done", !.value = call.threads[t].translation]]
    /\ UNCHANGED <<pc, ret, sources, word_levels, stopwords, core_words, doc, target,
                   analysis>>

ConcurrentNext ==
    \E t \in Threads :
        ThreadCall(t) \/ ThreadCheck(t) \/ ThreadTranslate(t) \/ ThreadStore(t)

SpecConcurrent == ConcurrentInit /\ [][ConcurrentNext]_vars

\* The callers that have returned.
Returned == {t \in Threads : call.threads[t].at = "done"}

\* C22: when concurrent translate_word calls have returned, every caller whose
\* key is in the cache has returned the value the cache holds for its key.
C22_CallersReturnStoredValue ==
    \A t \in Returned :
        ThreadKey(t) \in DOMAIN service.translation_cache =>
            call.threads[t].value = service.translation_cache[ThreadKey(t)]

-----------------------------------------------------------------------------
(* old_app.py: the analyzer of one session, whose vocabulary is loaded from
   the files found in the working directory, or from those and the files the
   user uploads. sources[l] is the file of level l: the one on disk where
   call.files_status[l] is true, otherwise the one the user has to upload. *)

\* The files a level may have in the old application.
OldSourcePool ==
    { OneColumn("Lemma", <<StrCell("Haus"), StrCell("gut")>>),
      OneColumn("Wort", <<StrCell("Welt")>>),
      Unreadable }

\* The insertion of one cell under `level` (old_app.py:82-85).
OldInsertLemma(wl, cell, level) ==
    IF cell.kind = "str"
    THEN LET lemma_lower == Lower(cell.val)
         IN IF lemma_lower \notin DOMAIN wl
            THEN [k \in (DOMAIN wl) \cup {lemma_lower} |->
                     IF k = lemma_lower THEN level ELSE wl[k]]
            ELSE wl
    ELSE wl

RECURSIVE OldInsertColumn(_, _, _, _)
\* The loop over the cells of the lemma column (old_app.py:81-85).
OldInsertColumn(wl, cells, i, level) ==
    IF i > Len(cells) THEN wl
    ELSE OldInsertColumn(OldInsertLemma(wl, cells[i], level), cells, i + 1, level)

\* One iteration of the loop over file_mapping (old_app.py:73-89).
OldLoadLevel(wl, src, level) ==
    IF ~src.readable THEN wl
    ELSE LET lemma_col == IF \E k \in 1..Len(src.columns) : src.columns[k] = "Lemma"
                          THEN "Lemma" ELSE "lemma"
         IN IF \E k \in 1..Len(src.columns) : src.columns[k] = lemma_col
            THEN OldInsertColumn(wl, Column(src, lemma_col), 1, level)
            ELSE wl

RECURSIVE OldLoadWordLists(_, _, _, _)
\* load_word_lists(file_mapping) (old_app.py:71-89): file_mapping is the
\* sequence of the levels in the order their keys were inserted.
OldLoadWordLists(wl, file_mapping, srcs, i) ==
    IF i > Len(file_mapping) THEN wl
    ELSE OldLoadWordLists(OldLoadLevel(wl, srcs[file_mapping[i]], file_mapping[i]),
                          file_mapping, srcs, i + 1)

RECURSIVE LevelsIn(_, _)
\* The levels of the set S in the order A1, A2, B1, B2, C1, from position i on.
LevelsIn(S, i) ==
    IF i > Len(levels) THEN <<>>
    ELSE (IF levels[i] \in S THEN <<levels[i]>> ELSE <<>>) \o LevelsIn(S, i + 1)

\* The levels whose file exists (old_app.py:510-517, old_app.py:631-635).
Existing(files_status) == {l \in Tiers : files_status[l]}

\* file_mapping as the button "Load Uploaded Files" builds it
\* (old_app.py:628-645): the existing files first, then the uploaded ones.
UploadFileMapping(files_status, uploaded) ==
    LevelsIn(Existing(files_status), 1) \o LevelsIn(uploaded, 1)

\* The body of the loop of the old analyze_text (old_app.py:141-169).
OldAnalyzeToken(st, token, i, t) ==
    IF token.is_punct \/ token.is_space THEN st
    ELSE LET lemma == IF token.lemma_ # "-PRON-" THEN token.lemma_ ELSE token.text
             lemma_lower == Lower(lemma)
         IN IF token.ent_type_ # ""
            THEN [st EXCEPT !.skipped_entities = @ \cup {token.text}]
            ELSE IF lemma_lower \in stopwords \/ lemma_lower \in core_words
            THEN st
            ELSE LET word_level == GetWordLevel(lemma)
                     considered == [st EXCEPT !.all_words = Append(@, <<token.text, lemma>>)]
                 IN IF Truthy(word_level) /\ IsAboveLevel(word_level, t)
                    THEN [considered EXCEPT !.words_above_level =
                            DictAppend(@, word_level,
                                       [original |-> token.text, lemma |-> lemma,
                                        pos |-> token.pos_, index |-> i - 1])]
                    ELSE considered

RECURSIVE OldAnalyzeLoop(_, _, _, _)
OldAnalyzeLoop(st, d, i, t) ==
    IF i > Len(d) THEN st
    ELSE OldAnalyzeLoop(OldAnalyzeToken(st, d[i], i, t), d, i + 1, t)

\* The dict the old analyze_text returns (old_app.py:171-177).
OldAnalyzeTextResult(d, t) ==
    LET st == OldAnalyzeLoop([words_above_level |-> <<>>, all_words |-> <<>>,
                              skipped_entities |-> {}], d, 1, t)
    IN [words_above_level |-> st.words_above_level,
        all_words |-> st.all_words,
        skipped_entities |-> st.skipped_entities,
        total_words |-> Len(st.all_words),
        doc |-> d]

\* The text and the target level the old application is run with.
OldDocs == {DocHaus}
OldTargets == {"B1"}

\* A new session (old_app.py:32-35, old_app.py:42-47): no file is loaded.
OldInit ==
    /\ pc = "files not loaded"
    /\ sources \in {SourcesOf(a1, a2, b1, b2, c1) :
                      a1 \in OldSourcePool, a2 \in OldSourcePool, b1 \in OldSourcePool,
                      b2 \in OldSourcePool, c1 \in OldSourcePool}
    /\ \E fs \in [Tiers \cup {"stopwords"} -> BOOLEAN] :
          call = [fn |-> "main", files_status |-> fs, file_mapping |-> <<>>]
    /\ word_levels = EmptyDict
    /\ stopwords = {}
    /\ core_words = {}
    /\ ret = None
    /\ doc = NoDoc
    /\ target = None
    /\ analysis = NoAnalysis
    /\ service = NoTranslationService

\* The automatic load of a script run (old_app.py:544-556, 499-528): when all
\* six files exist, load_existing_files loads the five vocabulary files and
\* files_loaded is set.
OldLoadExistingFiles ==
    /\ pc = "files not loaded"
    /\ \A f \in DOMAIN call.files_status : call.files_status[f]
    /\ LET file_mapping == LevelsIn(Existing(call.files_status), 1)
       IN /\ word_levels' = OldLoadWordLists(word_levels, file_mapping, sources, 1)
          /\ call' = [call EXCEPT !.fn = "load_existing_files",
                                  !.file_mapping = file_mapping]
    /\ core_words' = CoreWords
    /\ stopwords' = AnalyzerStopwords
    /\ pc' = "files loaded"
    /\ UNCHANGED <<ret, sources, doc, target, analysis, service>>

\* The button "Load Uploaded Files" (old_app.py:613-656), shown while
\* files_loaded is false: the user has uploaded the files of some of the
\* missing levels. An uploaded file that cannot be read raises at
\* old_app.py:641, before any list is loaded.
OldLoadUploadedFiles ==
    /\ pc = "files not loaded"
    /\ \E f \in DOMAIN call.files_status : ~call.files_status[f]
    /\ \E uploaded \in SUBSET (Tiers \ Existing(call.files_status)) :
          LET file_mapping == UploadFileMapping(call.files_status, uploaded)
              raised == \E l \in uploaded : ~sources[l].readable
          IN /\ word_levels' = IF raised THEN word_levels
                               ELSE OldLoadWordLists(word_levels, file_mapping, sources, 1)
             /\ call' = [call EXCEPT !.fn = "Load Uploaded Files",
                                     !.file_mapping = IF raised THEN <<>> ELSE file_mapping]
             /\ pc' = IF raised THEN "upload failed" ELSE "files loaded"
    /\ core_words' = CoreWords
    /\ \E loaded \in (IF call.files_status["stopwords"]
                      THEN {AnalyzerStopwords} ELSE {AnalyzerStopwords, {}}) :
          stopwords' = loaded
    /\ UNCHANGED <<ret, sources, doc, target, analysis, service>>

\* The button "Analyze Text" (old_app.py:727-737): without files_loaded an
\* error is shown, otherwise analyze_text runs.
OldAnalyzeText ==
    /\ pc \in {"files not loaded", "upload failed", "files loaded"}
    /\ \E d \in OldDocs, t \in OldTargets :
          /\ doc' = d
          /\ target' = t
          /\ IF pc = "files loaded"
             THEN /\ analysis' = OldAnalyzeTextResult(d, t)
                  /\ ret' = "Analysis complete!"
                  /\ pc' = "analyzed"
             ELSE /\ analysis' = analysis
                  /\ ret' = "Please load word lists first."
                  /\ pc' = "refused"
    /\ call' = [call EXCEPT !.fn = "Analyze Text"]
    /\ UNCHANGED <<sources, word_levels, stopwords, core_words, service>>

OldNext == OldLoadExistingFiles \/ OldLoadUploadedFiles \/ OldAnalyzeText

SpecOldApp == OldInit /\ [][OldNext]_vars

\* C23: when word_levels is empty after the five sources were attempted,
\* analyze_text is not run: the button "Analyze Text" gives an error and no
\* analysis result.
C23_NoAnalysisOnEmptyVocabulary ==
    (pc = "analyzed" /\ Len(call.file_mapping) = 5) => DOMAIN word_levels # {}

\* A file holds the lemma w for the old load_word_lists: it is readable, has
\* the column "Lemma", or else "lemma", and a string cell of it is w once
\* lower-cased.
OldContains(src, w) ==
    /\ src.readable
    /\ LET lemma_col == IF \E k \in 1..Len(src.columns) : src.columns[k] = "Lemma"
                        THEN "Lemma" ELSE "lemma"
       IN /\ \E k \in 1..Len(src.columns) : src.columns[k] = lemma_col
          /\ \E k \in 1..Len(Column(src, lemma_col)) :
                LET cell == Column(src, lemma_col)[k]
                IN cell.kind = "str" /\ Lower(cell.val) = w

\* C25: in the load paths of old_app.py the sources are ingested in the order
\* A1, A2, B1, B2, C1, and a lemma held by several ingested sources has the
\* level of the easiest of them.
C25_IngestedInRankOrder ==
    pc \in {"files loaded", "analyzed"} =>
        LET file_mapping == call.file_mapping
        IN /\ \A i \in 1..Len(file_mapping) : \A j \in (i + 1)..Len(file_mapping) :
                 Rank(file_mapping[i]) < Rank(file_mapping[j])
           /\ \A w \in Lemmas : \A i \in 1..Len(file_mapping) :
                 OldContains(sources[file_mapping[i]], w) =>
                    /\ w \in DOMAIN word_levels
                    /\ Rank(word_levels[w]) <= Rank(file_mapping[i])

-----------------------------------------------------------------------------
(* The requests of one create_word_lists call *)

\* The requests of the given kind that the call sent to the external translator.
RequestsOfKind(kind) == {k \in 1..Len(ret.calls) : ret.calls[k].kind = kind}

\* C27: one create_word_lists call sends the external translator at most one
\* batch request, the words of that request are distinct lemmas, and the
\* single-word requests are no more than the distinct lemmas above the target
\* level.
C27_OneBatchOfDistinctLemmas ==
    pc = "listed" =>
        /\ Cardinality(RequestsOfKind("batch")) <= 1
        /\ \A k \in RequestsOfKind("batch") :
              \A i \in 1..Len(ret.calls[k].words), j \in 1..Len(ret.calls[k].words) :
                 i # j => ret.calls[k].words[i] # ret.calls[k].words[j]
        /\ Cardinality(RequestsOfKind("single"))
              <= Cardinality(LemmasToTranslate(analysis))

\* C28: a cache key is assigned at most once: after any calls of translate_word
\* and translate_batch on one service, no two assignments to translation_cache
\* have the same key, so that no stored value is replaced by a later write.
C28_KeyWrittenOnce ==
    pc = "serving" =>
        \A i \in 1..Len(service.writes), j \in 1..Len(service.writes) :
            i < j => service.writes[i].key # service.writes[j].key

====
